---- MODULE Spec2Model ----
(***************************************************************************)
(* T=1 over I2C link engine (src/src/t1.rs) and the command dispatcher     *)
(* built on it (src/src/se05x.rs), as a state machine.  One step of the    *)
(* machine is one bus access (read or write) together with all the code    *)
(* that runs up to the next bus access; the chip's answer to each access   *)
(* is the nondeterministic input of the step.                              *)
(***************************************************************************)
EXTENDS Integers, Sequences, FiniteSets, TLC

(***************************************************************************)
(* Bounds of the model (not program constants).                            *)
(***************************************************************************)
\* answers of the chip (frames and address NACKs) in one run of the model
MaxAnswers == 3
\* top-level operations the user starts in one run of the model
MaxCalls == 2

\* how many times the user of a frame sender calls write_data
MaxWrites == 4

(***************************************************************************)
(* Program constants.                                                      *)
(***************************************************************************)
I_BLOCK_PCB_MASK == 159
I_BLOCK_PCB == 0
I_BLOCK_SEQ == 64
I_BLOCK_MOR == 32
R_BLOCK_PCB == 128
R_BLOCK_PCB_MASK == 236
R_BLOCK_SEQ == 16
R_BLOCK_ERROR_MASK == 3
SEGT_US == 10
BWT_US == 100000
DMPOT_MS == 1
NAD_HD_TO_SE == 90
NAD_SE_TO_HD == 165
DEFAULT_RETRY_COUNT == 1024
MAX_FRAME_DATA_LEN == 254
HEADER_LEN == 3
TRAILER_LEN == 2
WTX_DELAY_US == 100000
StatusSuccess == 36864

(***************************************************************************)
(* Bit operations on naturals.                                             *)
(***************************************************************************)
RECURSIVE BitAnd(_, _)
BitAnd(a, b) ==
    IF a = 0 \/ b = 0 THEN 0
    ELSE (a % 2) * (b % 2) + 2 * BitAnd(a \div 2, b \div 2)

RECURSIVE BitXor(_, _)
BitXor(a, b) ==
    IF a = 0 THEN b
    ELSE IF b = 0 THEN a
    ELSE ((a + b) % 2) + 2 * BitXor(a \div 2, b \div 2)

RECURSIVE BitOr(_, _)
BitOr(a, b) ==
    IF a = 0 THEN b
    ELSE IF b = 0 THEN a
    ELSE (IF a % 2 = 1 \/ b % 2 = 1 THEN 1 ELSE 0) + 2 * BitOr(a \div 2, b \div 2)

(***************************************************************************)
(* CRC-16/X-25 (crc16::State<crc16::X_25>): reflected polynomial 0x8408,   *)
(* initial value 0xFFFF, final xor 0xFFFF.                                 *)
(***************************************************************************)
RECURSIVE CrcBits(_, _)
CrcBits(c, n) ==
    IF n = 0 THEN c
    ELSE CrcBits(IF c % 2 = 1 THEN BitXor(c \div 2, 33800) ELSE c \div 2, n - 1)

CrcTable == [b \in 0..255 |-> CrcBits(b, 8)]

CrcUpdate(crc, byte) == BitXor(crc \div 256, CrcTable[BitXor(crc % 256, byte)])

RECURSIVE CrcFold(_, _, _, _)
\* the register after bytes[lo..hi], folded by halves to keep the evaluation shallow
CrcFold(crc, bytes, lo, hi) ==
    IF lo > hi THEN crc
    ELSE IF lo = hi THEN CrcUpdate(crc, bytes[lo])
    ELSE LET mid == (lo + hi) \div 2
             left == CrcFold(crc, bytes, lo, mid)
         IN  IF left >= 0 THEN CrcFold(left, bytes, mid + 1, hi) ELSE 0

\* Crc::calculate(bytes)
Crc(bytes) == 65535 - CrcFold(65535, bytes, 1, Len(bytes))

\* u16::to_le_bytes
to_le_bytes(x) == <<x % 256, x \div 256>>

\* variant: the low byte first
from_le_bytes(hi, lo) == lo * 256 + hi

\* u16::from_be_bytes
from_be_bytes(hi, lo) == hi * 256 + lo

(***************************************************************************)
(* Frame codec: Seq is a boolean (ZERO = FALSE, ONE = TRUE).               *)
(***************************************************************************)
SBlockCode ==
    [ResyncRequest |-> 192, ResyncResponse |-> 224,
     IfsRequest |-> 193, IfsResponse |-> 225,
     AbortRequest |-> 194, AbortResponse |-> 226,
     WtxRequest |-> 195, WtxResponse |-> 227,
     InterfaceSoftResetRequest |-> 207, InterfaceSoftResetResponse |-> 239,
     EndOfApduSessionRequest |-> 197, EndOfApduSessionResponse |-> 229,
     SeChipResetRequest |-> 198, SeChipResetResponse |-> 230,
     GetAtrRequest |-> 199, GetAtrResponse |-> 231]

SBlock == DOMAIN SBlockCode

RBlockErrorCode == [NoError |-> 0, CrcError |-> 1, OtherError |-> 2]

RBlockError == DOMAIN RBlockErrorCode

PcbI(seq, multi) == [t |-> "I", seq |-> seq, more |-> multi, block |-> "", err |-> ""]
PcbS(block) == [t |-> "S", seq |-> FALSE, more |-> FALSE, block |-> block, err |-> ""]
PcbR(seq, err) == [t |-> "R", seq |-> seq, more |-> FALSE, block |-> "", err |-> err]

\* variant: the sequence bit and the more-data bit change places
i_pcb_swapped(seq, multi) ==
    BitOr(BitOr(I_BLOCK_PCB, IF multi THEN I_BLOCK_SEQ ELSE 0),
          IF seq THEN I_BLOCK_MOR ELSE 0)

i_pcb(seq, multi) ==
    BitOr(BitOr(I_BLOCK_PCB, IF multi THEN I_BLOCK_MOR ELSE 0),
          IF seq THEN I_BLOCK_SEQ ELSE 0)

s_pcb(block) == SBlockCode[block]

\* variant: the sequence bit is left out
r_pcb_without_seq(seq, error) == BitOr(R_BLOCK_PCB, RBlockErrorCode[error])

r_pcb(seq, error) ==
    BitOr(BitOr(R_BLOCK_PCB, IF seq THEN R_BLOCK_SEQ ELSE 0), RBlockErrorCode[error])

to_byte(pcb) ==
    CASE pcb.t = "I" -> i_pcb(pcb.seq, pcb.more)
      [] pcb.t = "S" -> s_pcb(pcb.block)
      [] pcb.t = "R" -> r_pcb(pcb.seq, pcb.err)

\* Pcb::parse: [ok |-> TRUE, pcb |-> p] or [ok |-> FALSE] (Error::BadPcb)
Pcb_parse(value) ==
    IF BitAnd(value, I_BLOCK_PCB_MASK) = I_BLOCK_PCB
    THEN [ok |-> TRUE,
          pcb |-> PcbI(BitAnd(value, I_BLOCK_SEQ) # 0, BitAnd(value, I_BLOCK_MOR) # 0)]
    ELSE IF BitAnd(value, R_BLOCK_PCB_MASK) = R_BLOCK_PCB
    THEN LET e == BitAnd(value, R_BLOCK_ERROR_MASK)
         IN  IF \E n \in RBlockError : RBlockErrorCode[n] = e
             THEN [ok |-> TRUE,
                   pcb |-> PcbR(BitAnd(value, R_BLOCK_SEQ) # 0,
                                CHOOSE n \in RBlockError : RBlockErrorCode[n] = e)]
             ELSE [ok |-> FALSE]
    ELSE IF \E b \in SBlock : SBlockCode[b] = value
    THEN [ok |-> TRUE, pcb |-> PcbS(CHOOSE b \in SBlock : SBlockCode[b] = value)]
    ELSE [ok |-> FALSE]

(***************************************************************************)
(* Atr::parse (the link-level answer to reset) and Atr::default.           *)
(***************************************************************************)
Drop(s, n) == SubSeq(s, n + 1, Len(s))
Take(s, n) == SubSeq(s, 1, n)

AtrErr(line) == [ok |-> FALSE, line |-> line]

Atr_default ==
    [pver |-> 1, vid |-> <<255, 255, 255, 255, 255>>, bwt |-> 0,
     ifsc |-> MAX_FRAME_DATA_LEN, plid |-> 0, mcf |-> 0, config |-> 0,
     mpot |-> 1, segt |-> SEGT_US, wut |-> 0, historical_bytes |-> <<>>]

Atr_parse(data) ==
    IF Len(data) < 7 THEN AtrErr(70)
    ELSE
    LET pver == data[1]
        vid == SubSeq(data, 2, 6)
        dllp_len == data[7]
        rem1 == Drop(data, 7)
    IN
    IF Len(rem1) < dllp_len \/ dllp_len < 2 THEN AtrErr(80)
    ELSE
    LET dllp == Take(rem1, dllp_len)
        rem2 == Drop(rem1, dllp_len)
    IN
    IF Len(dllp) < 4 THEN AtrErr(86)
    ELSE
    LET bwt_ == from_be_bytes(dllp[1], dllp[2])
        ifsc == from_be_bytes(dllp[3], dllp[4])
    IN
    IF Len(rem2) < 2 THEN AtrErr(93)
    ELSE
    LET plid == rem2[1]
        plp_len == rem2[2]
        rem3 == Drop(rem2, 2)
    IN
    IF Len(rem3) < plp_len THEN AtrErr(101)
    ELSE
    LET plp == Take(rem3, plp_len)
        rem4 == Drop(rem3, plp_len)
    IN
    IF Len(plp) < 11 THEN AtrErr(107)
    ELSE
    LET mcf == from_be_bytes(plp[1], plp[2])
        segt_ == from_be_bytes(plp[8], plp[9])
        wut == from_be_bytes(plp[10], plp[11])
    IN
    IF rem4 = <<>> THEN AtrErr(115)
    ELSE
    LET hb_len == rem4[1]
        rem5 == Drop(rem4, 1)
    IN
    IF Len(rem5) < hb_len THEN AtrErr(121)
    ELSE [ok |-> TRUE,
          atr |-> [pver |-> pver, vid |-> vid, bwt |-> bwt_, ifsc |-> ifsc,
                   plid |-> plid, mcf |-> mcf, config |-> plp[3], mpot |-> plp[4],
                   segt |-> segt_, wut |-> wut,
                   historical_bytes |-> Take(rem5, hb_len)]]

(***************************************************************************)
(* u32 arithmetic of the retry budget.  The product bwt * mult can exceed  *)
(* 32 bits, so it is computed on base-256 digits (least significant        *)
(* first).                                                                 *)
(***************************************************************************)
RECURSIVE MulDigits(_, _, _, _)
\* digits of x * m + carry, n digits wide and the final carry appended
MulDigits(x, m, carry, n) ==
    IF n = 0 THEN <<carry>>
    ELSE LET p == (x % 256) * m + carry
         IN  <<p % 256>> \o MulDigits(x \div 256, m, p \div 256, n - 1)

RECURSIVE DivDigits(_, _, _, _)
\* quotient of the number with digits ds[1..k] (least significant first) by d,
\* given the remainder r carried in from the more significant digits
DivDigits(ds, k, d, r) ==
    IF k = 0 THEN 0
    ELSE LET cur == r * 256 + ds[k]
         IN  (cur \div d) * (IF k = 1 THEN 1 ELSE 256) *
             (IF k <= 2 THEN 1 ELSE 256) * (IF k <= 3 THEN 1 ELSE 256) *
             (IF k <= 4 THEN 1 ELSE 256)
             + DivDigits(ds, k - 1, d, cur % d)

\* whether bwt_ * mult overflows u32 (a panic in a build with overflow checks)
MulOverflows(bwt_, mult) == MulDigits(bwt_, mult, 0, 4)[5] # 0

\* (bwt * mult) / mpot + 1 with the product wrapped to 32 bits
WtxRetryCount(bwt_, mult, mpot_) == DivDigits(MulDigits(bwt_, mult, 0, 4), 4, mpot_, 0) + 1

\* (bwt * mult) / mpot + 1 over the integers (no wrap)
ExactRescaled(bwt_, mult, mpot_) == DivDigits(MulDigits(bwt_, mult, 0, 4), 5, mpot_, 0) + 1

(***************************************************************************)
(* The chip: what it may answer to a bus access.                           *)
(***************************************************************************)
BusErrors == {"AddressNack", "DataNack", "Other"}

\* the ATR of tests::atr with the given BWT, MPOT and SEGT and DLLP length
AtrBytes(bwt_ms, mpot_ms, segt_us, dllp_len) ==
    <<0, 160, 0, 0, 3, 150, dllp_len, bwt_ms \div 256, bwt_ms % 256, 0, 254,
      2, 11, 3, 232, 8, mpot_ms, 0, 0, 0, segt_us \div 256, segt_us % 256, 0, 0,
      10, 74, 67, 79, 80, 52, 32, 65, 84, 80, 79>>

AtrPayloads ==
    {AtrBytes(1000, 1, 100, 4),     \* the fixture of tests::atr
     AtrBytes(1, 1, 100, 4),        \* a block waiting time of one poll interval
     AtrBytes(1000, 0, 100, 4),     \* a minimum polling time of zero
     AtrBytes(65535, 1, 100, 4),    \* the largest block waiting time
     AtrBytes(0, 1, 100, 4)}        \* a block waiting time of zero

AtrLen == Len(AtrBytes(0, 0, 0, 0))

DataBytes == {0, 144}

\* the headers the chip may answer a header read with
ChipHeaders ==
    \* Information blocks with one byte, WTX requests with and without one
    {<<NAD_SE_TO_HD, p, 1>> : p \in {0, 32, 64, 96, 195}}
    \* empty Information blocks, a WTX request without multiplier, R(0, NoError),
    \* ResyncResponse, InterfaceSoftResetResponse without ATR, an undecodable byte
    \cup {<<NAD_SE_TO_HD, p, 0>> : p \in {0, 32, 195, 128, 224, 239, 255}}
    \* InterfaceSoftResetResponse carrying an ATR
    \cup {<<NAD_SE_TO_HD, 239, AtrLen>>}
    \* a length above the frame maximum, and the host's own address without and
    \* with a data byte
    \cup {<<NAD_SE_TO_HD, 0, 255>>, <<NAD_HD_TO_SE, 0, 0>>, <<NAD_HD_TO_SE, 0, 1>>}

\* the application records the chip answers Select with
SelectRecords == {<<7, 2, 0, 63, 255, 1, 11>>, <<3, 1, 1, 0, 128, 0, 0>>}

\* the answers to Select: a record with the status words 90 00 and 6F 00, one
\* of nine bytes with 90 00, and 90 00 alone
SelectAnswers ==
    {r \o <<144, 0>> : r \in SelectRecords}
        \cup {r \o <<111, 0>> : r \in SelectRecords}
        \cup {<<1, 2, 3, 4, 5, 6, 7, 8, 9, 144, 0>>, <<144, 0>>}

\* the headers the chip answers with while the driver is enabled: a
\* ResyncResponse, an InterfaceSoftResetResponse carrying an ATR, Information
\* blocks with the answers to Select, R(0, NoError)
EnableChipHeaders ==
    {<<NAD_SE_TO_HD, 224, 0>>, <<NAD_SE_TO_HD, 239, AtrLen>>, <<NAD_SE_TO_HD, 128, 0>>}
        \cup {<<NAD_SE_TO_HD, 0, Len(a)>> : a \in SelectAnswers}

\* the headers of a chip that answers without end: a WTX request, an
\* Information block of one byte that ends the response, an empty chained one
EndlessChipHeaders ==
    {<<NAD_SE_TO_HD, 195, 1>>, <<NAD_SE_TO_HD, 0, 1>>, <<NAD_SE_TO_HD, 32, 0>>}

ChipData(len) ==
    IF len = AtrLen THEN AtrPayloads
    ELSE IF len = 0 THEN {<<>>}
    ELSE IF len = 1 THEN {<<b>> : b \in DataBytes}
    ELSE {a \in SelectAnswers : Len(a) = len}

\* the headers the chip may answer the frame sender's acknowledgment read with:
\* R(0, NoError), R(1, NoError), R(0, CrcError), an Information block, a bad
\* length and the host's own address
ChipReplyHeaders ==
    {<<NAD_SE_TO_HD, p, 0>> : p \in {128, 144, 129, 0}}
    \cup {<<NAD_SE_TO_HD, 128, 1>>, <<NAD_HD_TO_SE, 128, 0>>}

Bytes(n, base) == [k \in 1..n |-> (base + k) % 256]

\* the commands the user runs, as the chunks their serialization writes: a
\* short one, and one of 255 bytes that needs two frames
Commands == {<<Bytes(4, 0)>>, <<Bytes(4, 0), Bytes(251, 4)>>}

NO_SM_CLA == 128
INS_PROCESS == 5
P1_DEFAULT == 0
P2_DEFAULT == 0
TAG_SESSION_ID == 16
TAG_1 == 65

\* the length field of a BER-TLV object
BerLength(n) ==
    IF n < 128 THEN <<n>>
    ELSE IF n < 256 THEN <<129, n>>
    ELSE <<130, n \div 256, n % 256>>

\* Tlv::new(tag, value), as the chunks its serialization writes
Tlv(tag, value) == <<<<tag>>, BerLength(Len(value)), value>>

\* ProcessSessionCmd::data
ProcessSessionCmd_data(session_id, apdu) ==
    Tlv(TAG_SESSION_ID, session_id) \o Tlv(TAG_1, apdu)

RECURSIVE SumLen(_)
SumLen(chunks) == IF chunks = <<>> THEN 0 ELSE Len(Head(chunks)) + SumLen(Tail(chunks))

\* ProcessSessionCmd::command with ExpectedLen::Max, as the chunks its
\* serialization writes: the header, the extended length of the data, the
\* data, the extended expected length
ProcessSessionCmd_command(session_id, apdu) ==
    LET data == ProcessSessionCmd_data(session_id, apdu)
        lc == SumLen(data)
    IN  <<<<NO_SM_CLA, INS_PROCESS, P1_DEFAULT, P2_DEFAULT>>,
          <<0, lc \div 256, lc % 256>>>> \o data \o <<<<0, 0>>>>

ProcessSessionCmd_len_apdu(session_id, apdu) == Len(apdu)

\* ProcessSessionCmd::len
ProcessSessionCmd_len(session_id, apdu) ==
    SumLen(ProcessSessionCmd_command(session_id, apdu))

APP_ID == <<160, 0, 0, 3, 150, 84, 83, 0, 0, 0, 1, 3, 0, 0, 0, 0>>

\* Select::command, as the chunks its serialization writes: the header, the
\* length of the data, the data, the expected length
Select_command == <<<<0, 164, 4, 0>>, <<Len(APP_ID)>>, APP_ID, <<7>>>>

\* the session identifiers and the commands run within a session: a short
\* one, and one whose envelope needs two frames
SessionIds == {[k \in 1..8 |-> 0], [k \in 1..8 |-> 16 + k]}
SessionApdus == {Bytes(4, 0), Bytes(240, 4)}

\* the enveloped commands, as chunks
SessionCommands ==
    {ProcessSessionCmd_command(id, apdu) : id \in SessionIds, apdu \in SessionApdus}

RECURSIVE Flatten(_)
Flatten(chunks) == IF chunks = <<>> THEN <<>> ELSE Head(chunks) \o Flatten(Tail(chunks))

\* the received frames, without trailer, the chip alphabet can make up
ChipFrames ==
    UNION {{h \o d : d \in ChipData(h[3])} : h \in ChipHeaders \cup EnableChipHeaders}
        \cup ChipReplyHeaders

\* the frames, without trailer, that carry the commands
CommandFrames ==
    UNION {LET bytes == Flatten(c)
               count == (Len(bytes) + MAX_FRAME_DATA_LEN - 1) \div MAX_FRAME_DATA_LEN
           IN  {LET data == SubSeq(bytes, k * MAX_FRAME_DATA_LEN + 1,
                                   IF k = count - 1 THEN Len(bytes)
                                   ELSE (k + 1) * MAX_FRAME_DATA_LEN)
                    pcb == i_pcb(seq, k # count - 1)
                IN  <<NAD_HD_TO_SE, pcb, Len(data)>> \o data
                : k \in 0..(count - 1), seq \in BOOLEAN}
           : c \in Commands \cup SessionCommands \cup {Select_command}}

\* Crc::calculate over the frames above, computed once
CrcMemo == [f \in ChipFrames \cup CommandFrames |-> Crc(f)]

\* Crc::calculate(bytes)
CrcOf(bytes) == IF bytes \in DOMAIN CrcMemo THEN CrcMemo[bytes] ELSE Crc(bytes)

\* a trailer that is not the checksum of bytes
WrongCrc(bytes) == to_le_bytes((CrcOf(bytes) + 1) % 65536)

(***************************************************************************)
(* State.                                                                  *)
(***************************************************************************)
VARIABLES
    \* T1oI2C
    iseq_snd, iseq_rcv, mpot, segt, bwt, retry_count,
    \* control: the call stack (innermost last), the position in the innermost
    \* function, the value returned by the last call that returned, and the value
    \* receive_data returned in the current operation
    stack, pc, ret, rx_ret,
    \* receive_data: the caller's buffer and the locals
    buffer, written, rx_retry_count, i, header_buffer, data_buf,
    \* bus accesses and delays of the current top-level operation, in order
    log,
    \* how many answers the chip has given, how many operations the user started
    answers, calls,
    \* the ATR handed back by the last successful interface_soft_reset
    last_atr,
    \* FrameSender, the attempts of its write loop, and the chunks of the command
    \* the dispatcher has not yet handed to it
    snd_data, snd_written, snd_sent, current_frame_buffer, tries, cmd_rest,
    \* write_data: the count it returns once the frame it flushes is sent
    snd_chunk_len,
    \* the bytes the response parser was invoked on in the current operation
    parsed,
    \* authenticate_aes128_session: its key and the host challenge it drew
    session

engine == <<iseq_snd, iseq_rcv, mpot, segt, bwt, retry_count>>
ctl == <<stack, pc, ret, rx_ret>>
rxv == <<buffer, written, rx_retry_count, i, header_buffer, data_buf>>
chip == <<answers, calls>>
sndv == <<snd_data, snd_written, snd_sent, current_frame_buffer, tries, cmd_rest, snd_chunk_len>>
vars == <<engine, ctl, rxv, log, chip, last_atr, sndv, parsed, session>>

(***************************************************************************)
(* Results and errors.                                                     *)
(***************************************************************************)
TErr(name) == [e |-> name, l |-> 0]
TLine(line) == [e |-> "Line", l |-> line]
Ok(v) == [tag |-> "Ok", v |-> v]
Err(e) == [tag |-> "Err", e |-> e]
PanicRes(why) == [tag |-> "Panic", why |-> why]
NoRet == [from |-> "", res |-> [tag |-> "None"]]

IBlocks(n) == [kind |-> "IBlocks", n |-> n]
\* variant: the two counts change places
SBlockRxSwapped(block, i_data, s_data) ==
    [kind |-> "SBlock", block |-> block, i_data |-> s_data, s_data |-> i_data]

\* DataReceived::SBlock
SBlockRx(block, i_data, s_data) ==
    [kind |-> "SBlock", block |-> block, i_data |-> i_data, s_data |-> s_data]

\* T1oI2C::write: the error for a failed bus write
WriteErr(o) ==
    CASE o = "AddressNack" -> TErr("AddressNack")
      [] o = "DataNack" -> TErr("DataNack")
      [] OTHER -> TLine(452)

\* T1oI2C::read: the error for a failed bus read
ReadErr(o) ==
    CASE o = "AddressNack" -> TErr("AddressNack")
      [] o = "DataNack" -> TErr("DataNack")
      [] OTHER -> TLine(464)

EvW(at, bytes, res) == [k |-> "w", at |-> at, b |-> bytes, n |-> Len(bytes), res |-> res]
EvR(at, n, bytes, res) == [k |-> "r", at |-> at, b |-> bytes, n |-> n, res |-> res]
EvD(at, us) == [k |-> "d", at |-> at, b |-> <<>>, n |-> us, res |-> "Ok"]

Zeros(n) == [k \in 1..n |-> 0]
Front(s) == SubSeq(s, 1, Len(s) - 1)
Top(s) == IF s = <<>> THEN "" ELSE s[Len(s)]

\* variant: the frame starts with the chip's address
Frame3FromChip(pcb) ==
    LET header == <<NAD_SE_TO_HD, to_byte(pcb), 0>>
    IN  header \o to_le_bytes(CrcOf(header))

\* a frame without data: header and trailer
Frame3(pcb) ==
    LET header == <<NAD_HD_TO_SE, to_byte(pcb), 0>>
    IN  header \o to_le_bytes(CrcOf(header))

\* the innermost function returns val to its caller
Return(fn, val) ==
    /\ stack' = Front(stack)
    /\ pc' = IF Len(stack) = 1 THEN "done" ELSE "ret"
    /\ ret' = [from |-> fn, res |-> val]
    /\ rx_ret' = IF fn = "receive_data" THEN val ELSE rx_ret

\* a panic in a function whose stack is stk unwinds the whole call stack
Panic(stk, why) ==
    /\ stack' = <<>>
    /\ pc' = "done"
    /\ ret' = [from |-> stk[1], res |-> PanicRes(why)]
    /\ rx_ret' = NoRet.res

\* no interface_soft_reset has succeeded
NoAtr == [valid |-> FALSE, parsed |-> FALSE, atr |-> Atr_default, call |-> 0]

\* the response parser has not been invoked
NoParse == [called |-> FALSE, bytes |-> <<>>]

\* authenticate_aes128_session is not running
NoSession == [key |-> <<>>, host_challenge |-> <<>>]

\* enable is running
Enabling == [command |-> "Select"]

\* no frame sender exists
SndClear ==
    /\ snd_data' = 0
    /\ snd_written' = 0
    /\ snd_sent' = 0
    /\ current_frame_buffer' = <<>>
    /\ tries' = 0
    /\ cmd_rest' = <<>>
    /\ snd_chunk_len' = 0

Idle == stack = <<>> /\ calls < MaxCalls

\* variant: the sequence bits are reset to one
Seq_ONE == TRUE

\* Seq::ZERO
Seq_ZERO == FALSE

Init ==
    /\ iseq_snd = Seq_ZERO
    /\ iseq_rcv = Seq_ZERO
    /\ mpot = DMPOT_MS * 1000
    /\ segt = SEGT_US
    /\ retry_count = DEFAULT_RETRY_COUNT
    /\ bwt = BWT_US
    /\ stack = <<>>
    /\ pc = "idle"
    /\ ret = NoRet
    /\ rx_ret = NoRet.res
    /\ buffer = <<>>
    /\ written = 0
    /\ rx_retry_count = 0
    /\ i = 0
    /\ header_buffer = <<>>
    /\ data_buf = <<>>
    /\ log = <<>>
    /\ answers = 0
    /\ calls = 0
    /\ last_atr = NoAtr
    /\ snd_data = 0
    /\ snd_written = 0
    /\ snd_sent = 0
    /\ current_frame_buffer = <<>>
    /\ tries = 0
    /\ cmd_rest = <<>>
    /\ snd_chunk_len = 0
    /\ parsed = NoParse
    /\ session = NoSession

(***************************************************************************)
(* T1oI2C::receive_data                                                    *)
(***************************************************************************)
\* the retry budget at the start of receive_data
RxBudget(bwt_, mpot_) == bwt_ \div mpot_ + 1

\* the loop's exit test, made after the counter was incremented
RxExhausted(i_, retry_count_) == i_ = retry_count_

\* variant: a WTX request is answered by a resync request
WtxFrameResync(mult) == Frame3(PcbS("ResyncRequest"))

\* the frame answering a WTX request
WtxFrame(mult) ==
    LET frame == <<NAD_HD_TO_SE, to_byte(PcbS("WtxResponse")), 1, mult>>
    IN  frame \o to_le_bytes(CrcOf(frame))

\* variant: the acknowledgment repeats the sequence bit of the block
AckFrameSameSeq(seq) == Frame3(PcbR(seq, "NoError"))

\* the acknowledgment of a chained Information block carrying seq
AckFrame(seq) == Frame3(PcbR(~seq, "NoError"))

\* the expected receive sequence bit after an Information block carrying seq
NextIseqRcv(seq) == ~seq

\* variant: the data is copied to the start of the buffer
CopyIntoStart(buf, at, data) ==
    [k \in 1..Len(buf) |-> IF k <= Len(data) THEN data[k] ELSE buf[k]]

\* current_buf.copy_from_slice(data_buf), current_buf = buffer[written..][..len]
CopyInto(buf, at, data) ==
    [k \in 1..Len(buf) |-> IF k > at /\ k <= at + Len(data) THEN data[k - at] ELSE buf[k]]

\* the checksum the trailer is compared with
ExpectedCrc(header, data) == to_le_bytes(CrcOf(header \o data))

\* variant: one byte more than the buffer holds is let through
BufferTooSmallLax(buffer_len, written_, len) == buffer_len + 1 < written_ + len

\* the frame's data does not fit in what is left of the caller's buffer
BufferTooSmall(buffer_len, written_, len) == buffer_len < written_ + len

\* no receive_data in progress: its locals hold nothing; buf is the caller's buffer
RxIdle(buf) ==
    /\ buffer' = buf
    /\ written' = 0
    /\ rx_retry_count' = 0
    /\ i' = 0
    /\ header_buffer' = <<>>
    /\ data_buf' = <<>>

RxClear == RxIdle(<<>>)

\* entering receive_data from a caller whose stack is stk
RxEnter(stk, buf) ==
    IF mpot = 0
    THEN /\ Panic(Append(stk, "receive_data"), "division by zero")
         /\ RxClear
    ELSE /\ stack' = Append(stk, "receive_data")
         /\ pc' = "rx_hdr"
         /\ ret' = NoRet
         /\ rx_ret' = NoRet.res
         /\ buffer' = buf
         /\ written' = 0
         /\ rx_retry_count' = RxBudget(bwt, mpot)
         /\ i' = 0
         /\ header_buffer' = <<0, 0, 0>>
         /\ data_buf' = <<>>

InRx(label) == Top(stack) = "receive_data" /\ pc = label

\* the loop counter reaches the budget: break, Timeout
RxTimeout ==
    /\ InRx("rx_hdr")
    /\ RxExhausted(i + 1, rx_retry_count)
    /\ i' = i + 1
    /\ Return("receive_data", Err(TErr("Timeout")))
    /\ UNCHANGED <<engine, buffer, written, rx_retry_count, header_buffer, data_buf,
                   log, chip, last_atr, sndv, parsed, session>>

\* whether the chip may give another answer: when the bus accesses are
\* recorded (rec) the chip answers a bounded number of times
ChipMayAnswer(rec) == rec => answers < MaxAnswers

\* the count of the chip's answers after one more
Counted(rec) == IF rec THEN answers + 1 ELSE answers

\* the headers the chip answers with: the endless chip has the smaller choice
ChipHeadersOn(rec) ==
    IF ~rec THEN EndlessChipHeaders
    ELSE IF session = Enabling THEN EnableChipHeaders
    ELSE ChipHeaders

\* the log after the given bus accesses and delays
Logged(rec, events) == IF rec THEN log \o events ELSE log

\* the header read is not acknowledged: wait_mpot, continue
RxHeaderNackOn(rec) ==
    /\ InRx("rx_hdr")
    /\ ~RxExhausted(i + 1, rx_retry_count)
    /\ ChipMayAnswer(rec)
    /\ i' = i + 1
    /\ answers' = Counted(rec)
    /\ header_buffer' = <<0, 0, 0>>
    /\ log' = Logged(rec, <<EvR("rx_hdr", HEADER_LEN, <<>>, "AddressNack"),
                       EvD("wait_mpot", mpot)>>)
    /\ UNCHANGED <<engine, ctl, buffer, written, rx_retry_count, data_buf, calls,
                   last_atr, sndv, parsed, session>>

\* the header read fails with another bus error
RxHeaderFailOn(rec) ==
    /\ InRx("rx_hdr")
    /\ ~RxExhausted(i + 1, rx_retry_count)
    /\ \E o \in BusErrors \ {"AddressNack"} :
        /\ log' = Logged(rec, <<EvR("rx_hdr", HEADER_LEN, <<>>, o)>>)
        /\ Return("receive_data", Err(ReadErr(o)))
    /\ i' = i + 1
    /\ header_buffer' = <<0, 0, 0>>
    /\ UNCHANGED <<engine, buffer, written, rx_retry_count, data_buf, chip, last_atr, sndv, parsed, session>>

\* the header is read: length and address checks
RxHeaderOn(rec) ==
    /\ InRx("rx_hdr")
    /\ ~RxExhausted(i + 1, rx_retry_count)
    /\ ChipMayAnswer(rec)
    /\ \E h \in ChipHeadersOn(rec) :
        LET nad == h[1]
            len == h[3]
        IN
        /\ header_buffer' = h
        /\ log' = Logged(rec, <<EvR("rx_hdr", HEADER_LEN, h, "Ok")>>)
        /\ IF BufferTooSmall(Len(buffer), written, len)
           THEN Return("receive_data", Err(TErr("ReceptionBuffer")))
           ELSE IF len > MAX_FRAME_DATA_LEN
           THEN Return("receive_data", Err(TErr("ReceptionBuffer")))
           ELSE IF nad # NAD_SE_TO_HD
           THEN Return("receive_data", Err(TErr("BadAddress")))
           ELSE /\ pc' = IF len # 0 THEN "rx_data" ELSE "rx_crc"
                /\ UNCHANGED <<stack, ret, rx_ret>>
    /\ i' = i + 1
    /\ answers' = Counted(rec)
    /\ data_buf' = <<>>
    /\ UNCHANGED <<engine, buffer, written, rx_retry_count, calls, last_atr, sndv, parsed, session>>

\* the data bytes are read
RxDataOn(rec) ==
    /\ InRx("rx_data")
    /\ \/ \E d \in ChipData(header_buffer[3]) :
            /\ data_buf' = d
            /\ log' = Logged(rec, <<EvR("rx_data", Len(d), d, "Ok")>>)
            /\ pc' = "rx_crc"
            /\ UNCHANGED <<stack, ret, rx_ret>>
       \/ \E o \in BusErrors :
            /\ log' = Logged(rec, <<EvR("rx_data", header_buffer[3], <<>>, o)>>)
            /\ Return("receive_data", Err(ReadErr(o)))
            /\ UNCHANGED data_buf
    /\ UNCHANGED <<engine, buffer, written, rx_retry_count, i, header_buffer, chip,
                   last_atr, sndv, parsed, session>>

\* variant: the data of the frame is in the buffer when the frame is rejected
RejectedCopied(buf, at, data) == CopyInto(buf, at, data)

\* the caller's buffer when receive_data returns an error for the frame read:
\* the data is copied only after the checks
Rejected(buf, at, data) == buf

\* what the frame just read leads to: [to |-> "ret", val |-> result] or a
\* position to continue at, with the buffer, count and sequence bit after it
RxFrame(crc_buf) ==
    LET len == header_buffer[3]
        parsed_pcb == Pcb_parse(header_buffer[2])
        pcb == parsed_pcb.pcb
        keep == [buffer |-> Rejected(buffer, written, data_buf), written |-> written,
                 iseq_rcv |-> iseq_rcv]
        copied == CopyInto(buffer, written, data_buf)
    IN
    IF ~parsed_pcb.ok
    THEN keep @@ [to |-> "ret", val |-> Err(TErr("BadPcb"))]
    ELSE IF crc_buf # ExpectedCrc(header_buffer, data_buf)
    THEN keep @@ [to |-> "ret", val |-> Err(TErr("BadCrc"))]
    ELSE IF pcb.t = "S" /\ pcb.block = "WtxRequest"
    THEN IF len # 1
         THEN keep @@ [to |-> "ret", val |-> Err(TLine(548))]
         ELSE keep @@ [to |-> "rx_wtx", val |-> NoRet.res]
    ELSE IF pcb.t = "S"
    THEN [buffer |-> copied, written |-> written, iseq_rcv |-> iseq_rcv,
          to |-> "ret", val |-> Ok(SBlockRx(pcb.block, written, len))]
    ELSE IF pcb.t = "R"
    THEN keep @@ [to |-> "ret", val |-> Err(TLine(576))]
    ELSE [buffer |-> copied, written |-> written + len,
          iseq_rcv |-> NextIseqRcv(pcb.seq),
          to |-> IF pcb.more THEN "rx_ack" ELSE "ret",
          val |-> Ok(IBlocks(written + len))]

\* the trailer is read: the frame is decoded, checked and taken
RxCrcOn(rec) ==
    /\ InRx("rx_crc")
    /\ \/ \E c \in {ExpectedCrc(header_buffer, data_buf),
                    WrongCrc(header_buffer \o data_buf)} :
            LET r == RxFrame(c)
            IN  /\ log' = Logged(rec, <<EvR("rx_crc", TRAILER_LEN, c, "Ok")>>)
                /\ buffer' = r.buffer
                /\ written' = r.written
                /\ iseq_rcv' = r.iseq_rcv
                /\ IF r.to = "ret"
                   THEN Return("receive_data", r.val)
                   ELSE /\ pc' = r.to
                        /\ UNCHANGED <<stack, ret, rx_ret>>
       \/ \E o \in BusErrors :
            /\ log' = Logged(rec, <<EvR("rx_crc", TRAILER_LEN, <<>>, o)>>)
            /\ Return("receive_data", Err(ReadErr(o)))
            /\ UNCHANGED <<buffer, written, iseq_rcv>>
    /\ UNCHANGED <<iseq_snd, mpot, segt, bwt, retry_count, rx_retry_count, i,
                   header_buffer, data_buf, chip, last_atr, sndv, parsed, session>>

\* the WTX response is written: the budget is rescaled, the counter reset
RxWtxOn(rec) ==
    /\ InRx("rx_wtx")
    /\ LET mult == data_buf[1]
       IN  \/ \* the product wraps in a build without overflow checks
              /\ log' = Logged(rec, <<EvW("rx_wtx", WtxFrame(mult), "Ok"),
                                 EvD("wtx", WTX_DELAY_US)>>)
              /\ rx_retry_count' = WtxRetryCount(bwt, mult, mpot)
              /\ i' = 0
              /\ pc' = "rx_hdr"
              /\ UNCHANGED <<stack, ret, rx_ret>>
           \/ \* and panics in a build with them
              /\ log' = Logged(rec, <<EvW("rx_wtx", WtxFrame(mult), "Ok")>>)
              /\ MulOverflows(bwt, mult)
              /\ Panic(stack, "attempt to multiply with overflow")
              /\ UNCHANGED <<rx_retry_count, i>>
           \/ \E o \in BusErrors :
              /\ log' = Logged(rec, <<EvW("rx_wtx", WtxFrame(mult), o)>>)
              /\ Return("receive_data", Err(WriteErr(o)))
              /\ UNCHANGED <<rx_retry_count, i>>
    /\ UNCHANGED <<engine, buffer, written, header_buffer, data_buf, chip, last_atr, sndv, parsed, session>>

\* the acknowledgment of a chained block is written
RxAckOn(rec) ==
    /\ InRx("rx_ack")
    /\ LET frame == AckFrame(Pcb_parse(header_buffer[2]).pcb.seq)
       IN  \/ /\ log' = Logged(rec, <<EvW("rx_ack", frame, "Ok")>>)
              /\ pc' = "rx_hdr"
              /\ UNCHANGED <<stack, ret, rx_ret>>
           \/ \E o \in BusErrors :
              /\ log' = Logged(rec, <<EvW("rx_ack", frame, o)>>)
              /\ Return("receive_data", Err(WriteErr(o)))
    /\ UNCHANGED <<engine, rxv, chip, last_atr, sndv, parsed, session>>

RxHeaderNack == RxHeaderNackOn(TRUE)

RxHeaderFail == RxHeaderFailOn(TRUE)

RxHeader == RxHeaderOn(TRUE)

RxData == RxDataOn(TRUE)

RxCrc == RxCrcOn(TRUE)

RxWtx == RxWtxOn(TRUE)

RxAck == RxAckOn(TRUE)

(***************************************************************************)
(* Top-level calls of the link engine.  A call starts when no call is in   *)
(* progress; it starts a fresh log.                                        *)
(***************************************************************************)
BufLens == {3}

\* the buffers receive_data is called with directly: one of three bytes and one
\* longer than any frame's data
RxBufLens == BufLens \cup {MAX_FRAME_DATA_LEN + 1}

RetryCounts == {0, 1, 2, DEFAULT_RETRY_COUNT}

\* Se05X::set_t1_retry_count
SetRetryCount ==
    /\ Idle
    /\ \E value \in RetryCounts :
        /\ value # retry_count
        /\ retry_count' = value
    /\ stack' = <<>>
    /\ pc' = "idle"
    /\ ret' = NoRet
    /\ rx_ret' = NoRet.res
    /\ log' = <<>>
    /\ calls' = calls + 1
    /\ UNCHANGED answers
    /\ RxClear
    /\ SndClear
    /\ parsed' = NoParse
    /\ session' = NoSession
    /\ UNCHANGED <<iseq_snd, iseq_rcv, mpot, segt, bwt, last_atr>>

\* receive_data called by the user of the link engine
CallReceive ==
    /\ Idle
    /\ \E n \in RxBufLens : RxEnter(<<>>, Zeros(n))
    /\ log' = <<>>
    /\ calls' = calls + 1
    /\ UNCHANGED answers
    /\ SndClear
    /\ parsed' = NoParse
    /\ session' = NoSession
    /\ UNCHANGED <<engine, last_atr>>

(***************************************************************************)
(* T1oI2C::resync                                                          *)
(***************************************************************************)
ResyncFrame == Frame3(PcbS("ResyncRequest"))

\* variant: any empty Supervisory block is accepted
ResyncAcceptsAnyBlock(data) ==
    data.kind = "SBlock" /\ data.i_data = 0 /\ data.s_data = 0

\* the reply resync accepts
ResyncAccepts(data) ==
    data.kind = "SBlock" /\ data.block = "ResyncResponse"
        /\ data.i_data = 0 /\ data.s_data = 0

\* resync up to its call of receive_data: write the request, wait_segt
ResyncBegin(stk, lg) ==
    \/ /\ log' = lg \o <<EvW("resync", ResyncFrame, "Ok"), EvD("wait_segt", segt)>>
       /\ RxEnter(Append(stk, "resync"), <<>>)
    \/ \E o \in BusErrors :
       /\ log' = Append(lg, EvW("resync", ResyncFrame, o))
       /\ stack' = stk
       /\ pc' = IF stk = <<>> THEN "done" ELSE "ret"
       /\ ret' = [from |-> "resync", res |-> Err(WriteErr(o))]
       /\ rx_ret' = NoRet.res
       /\ RxClear

CallResync ==
    /\ Idle
    /\ ResyncBegin(<<>>, <<>>)
    /\ calls' = calls + 1
    /\ UNCHANGED answers
    /\ SndClear
    /\ parsed' = NoParse
    /\ session' = NoSession
    /\ UNCHANGED <<engine, last_atr>>

\* resync after receive_data returned
ResyncReturn ==
    /\ Top(stack) = "resync" /\ pc = "ret" /\ ret.from = "receive_data"
    /\ IF ret.res.tag = "Err"
       THEN /\ Return("resync", ret.res)
            /\ UNCHANGED <<iseq_snd, iseq_rcv>>
       ELSE IF ~ResyncAccepts(ret.res.v)
       THEN /\ Return("resync", Err(TErr("BadPcb")))
            /\ UNCHANGED <<iseq_snd, iseq_rcv>>
       ELSE /\ iseq_snd' = Seq_ZERO
            /\ iseq_rcv' = Seq_ZERO
            /\ Return("resync", Ok("unit"))
    /\ UNCHANGED <<mpot, segt, bwt, retry_count, rxv, log, chip, last_atr, sndv, parsed, session>>

(***************************************************************************)
(* T1oI2C::interface_soft_reset                                            *)
(***************************************************************************)
ResetFrame == Frame3(PcbS("InterfaceSoftResetRequest"))

RESET_BUFFER_LEN == 64

\* variant: the minimum polling time is taken without conversion
AtrTimingRawMpot(atr) == [mpot |-> atr.mpot, segt |-> atr.segt, bwt |-> atr.bwt * 1000]

\* the timing parameters taken from a parsed ATR, in microseconds
AtrTiming(atr) == [mpot |-> 1000 * atr.mpot, segt |-> atr.segt, bwt |-> atr.bwt * 1000]

ResetBegin(stk, lg) ==
    \/ /\ log' = lg \o <<EvW("reset", ResetFrame, "Ok"), EvD("wait_segt", segt)>>
       /\ RxEnter(Append(stk, "interface_soft_reset"), Zeros(RESET_BUFFER_LEN))
    \/ \E o \in BusErrors :
       /\ log' = Append(lg, EvW("reset", ResetFrame, o))
       /\ stack' = stk
       /\ pc' = IF stk = <<>> THEN "done" ELSE "ret"
       /\ ret' = [from |-> "interface_soft_reset", res |-> Err(WriteErr(o))]
       /\ rx_ret' = NoRet.res
       /\ RxClear

CallReset ==
    /\ Idle
    /\ ResetBegin(<<>>, <<>>)
    /\ calls' = calls + 1
    /\ UNCHANGED answers
    /\ SndClear
    /\ parsed' = NoParse
    /\ session' = NoSession
    /\ UNCHANGED <<engine, last_atr>>

\* interface_soft_reset after receive_data returned
ResetReturn ==
    /\ Top(stack) = "interface_soft_reset" /\ pc = "ret" /\ ret.from = "receive_data"
    /\ IF ret.res.tag = "Err"
       THEN /\ Return("interface_soft_reset", ret.res)
            /\ UNCHANGED <<iseq_snd, iseq_rcv, mpot, segt, bwt, last_atr>>
       ELSE IF ~(ret.res.v.kind = "SBlock"
                 /\ ret.res.v.block = "InterfaceSoftResetResponse"
                 /\ ret.res.v.i_data = 0)
       THEN /\ Return("interface_soft_reset", Err(TErr("BadPcb")))
            /\ UNCHANGED <<iseq_snd, iseq_rcv, mpot, segt, bwt, last_atr>>
       ELSE LET atr == Atr_parse(Take(buffer, ret.res.v.s_data))
                t == AtrTiming(atr.atr)
                given == IF atr.ok THEN atr.atr ELSE Atr_default
            IN  /\ mpot' = IF atr.ok THEN t.mpot ELSE mpot
                /\ segt' = IF atr.ok THEN t.segt ELSE segt
                /\ bwt' = IF atr.ok THEN t.bwt ELSE bwt
                /\ iseq_snd' = Seq_ZERO
                /\ iseq_rcv' = Seq_ZERO
                /\ last_atr' = [valid |-> TRUE, parsed |-> atr.ok, atr |-> given,
                                 call |-> calls]
                /\ Return("interface_soft_reset", Ok(given))
    /\ UNCHANGED <<retry_count, rxv, log, chip, sndv, parsed, session>>

(***************************************************************************)
(* FrameSender                                                             *)
(***************************************************************************)
MAX_FRAME_LEN == MAX_FRAME_DATA_LEN + HEADER_LEN + TRAILER_LEN

Min(a, b) == IF a < b THEN a ELSE b

\* FrameSender::new
\* variant: one byte more than asked for is declared
FrameSender_new_longer(n) ==
    [data |-> n + 1, written |-> 0, sent |-> 0,
     current_frame_buffer |-> Zeros(MAX_FRAME_LEN)]

\* FrameSender::new
FrameSender_new(n) ==
    [data |-> n, written |-> 0, sent |-> 0, current_frame_buffer |-> Zeros(MAX_FRAME_LEN)]

\* the frame sender held in the state
Sender ==
    [data |-> snd_data, written |-> snd_written, sent |-> snd_sent,
     current_frame_buffer |-> current_frame_buffer]

SetSender(s) ==
    /\ snd_data' = s.data
    /\ snd_written' = s.written
    /\ snd_sent' = s.sent
    /\ current_frame_buffer' = s.current_frame_buffer

\* FrameSender::current_offset
current_offset(s) == s.written - s.sent

\* variant: one byte more than declared is let through
OverLongByTwo(len, written_, data_) == len + written_ > data_ + 1

\* the write would exceed the declared length of the message
OverLong(len, written_, data_) == len + written_ > data_

\* variant: only a full frame is flushed
MustFlushWhenFull(full_frame, final_data) == full_frame

\* whether write_data sends the frame before it returns
MustFlush(full_frame, final_data) == full_frame \/ final_data

\* FrameSender::write_data up to its call of send_current_frame: the result, the
\* sender afterwards, and whether the frame is flushed before returning
write_data(s, bytes) ==
    IF bytes = <<>> THEN [res |-> Ok(0), s |-> s, flush |-> FALSE]
    ELSE IF OverLong(Len(bytes), s.written, s.data)
    THEN [res |-> Err(TLine(722)), s |-> s, flush |-> FALSE]
    ELSE
    LET offset == current_offset(s)
        available_in_frame == MAX_FRAME_DATA_LEN - offset
        chunk_len == Min(available_in_frame, Len(bytes))
        s2 == [s EXCEPT !.written = @ + chunk_len,
                        !.current_frame_buffer =
                            CopyInto(@, HEADER_LEN + offset, Take(bytes, chunk_len))]
        full_frame == chunk_len = available_in_frame
        final_data == s2.written = s2.data
    IN  [res |-> Ok(chunk_len), s |-> s2, flush |-> MustFlush(full_frame, final_data)]

RECURSIVE to_writer(_, _)
\* command.to_writer(&mut sender): every chunk is written completely, in order.
\* Runs up to the next flush ("flush"), the end of the command ("done") or a
\* failed write ("err"); rest is what remains to be written after that.
to_writer(s, rest) ==
    IF rest = <<>> THEN [kind |-> "done", s |-> s, rest |-> rest, e |-> TErr("")]
    ELSE IF Head(rest) = <<>> THEN to_writer(s, Tail(rest))
    ELSE LET w == write_data(s, Head(rest))
         IN  IF w.res.tag = "Err"
             THEN [kind |-> "err", s |-> w.s, rest |-> rest, e |-> w.res.e]
             ELSE LET rest2 == <<Drop(Head(rest), w.res.v)>> \o Tail(rest)
                  IN  IF w.flush
                      THEN [kind |-> "flush", s |-> w.s, rest |-> rest2, e |-> TErr("")]
                      ELSE to_writer(w.s, rest2)

\* send_current_frame up to its write loop: the frame is completed in the
\* buffer with the header carrying seq and the trailer
FramePrep(s, seq) ==
    LET data_len == current_offset(s)
        is_last == s.written = s.data
        pcb == to_byte(PcbI(seq, ~is_last))
        header == <<NAD_HD_TO_SE, pcb, data_len % 256>>
        with_header == CopyInto(s.current_frame_buffer, 0, header)
        trailer == to_le_bytes(CrcOf(Take(with_header, HEADER_LEN + data_len)))
    IN  [s EXCEPT !.current_frame_buffer =
                      CopyInto(with_header, HEADER_LEN + data_len, trailer)]

\* variant: the send sequence bit is kept
NextIseqSndKept(seq) == seq

\* the send sequence bit after send_current_frame has built a frame carrying seq
NextIseqSnd(seq) == ~seq

\* variant: the write loop makes one attempt more than configured
WriteExhaustedLate(attempts, retry_count_) == attempts > retry_count_

\* whether the write loop is over after the given number of attempts
WriteExhausted(attempts, retry_count_) == attempts >= retry_count_

\* the check of the acknowledgment read after a chained frame
AckCheck(resp, seq) ==
    LET nad == resp[1]
        p == Pcb_parse(resp[2])
        len == resp[3]
        crc == to_le_bytes(CrcOf(Take(resp, HEADER_LEN)))
    IN  IF nad # NAD_SE_TO_HD THEN Err(TErr("BadAddress"))
        ELSE IF ~(p.ok /\ p.pcb.t = "R") THEN Err(TErr("BadPcb"))
        ELSE IF p.pcb.err = "CrcError" THEN Err(TErr("BadCrc"))
        ELSE IF p.pcb.err # "NoError" THEN Err(TErr("BadPcb"))
        ELSE IF len # 0 THEN Err(TErr("BadAddress"))
        ELSE IF SubSeq(resp, 4, 5) # crc THEN Err(TErr("BadCrc"))
        ELSE Ok("unit")

\* the 5-byte replies the chip may answer the acknowledgment read with
ChipReplies ==
    {h \o to_le_bytes(CrcOf(h)) : h \in ChipReplyHeaders}
    \cup {h \o WrongCrc(h) : h \in {<<NAD_SE_TO_HD, 128, 0>>, <<NAD_SE_TO_HD, 144, 0>>}}

(***************************************************************************)
(* Se05X::run_command (run_command_internal, run_command_buf_response,     *)
(* receive_apdu)                                                           *)
(***************************************************************************)
\* se05x::Error
ST1(e) == [e |-> "T1", t1 |-> e, l |-> 0, status |-> 0]
SLine(line) == [e |-> "Line", t1 |-> TErr(""), l |-> line, status |-> 0]
SStatus(code) == [e |-> "Status", t1 |-> TErr(""), l |-> 0, status |-> code]
STlv == [e |-> "Tlv", t1 |-> TErr(""), l |-> 0, status |-> 0]

\* variant: the status word is read little-endian
Status_from_le(sw1, sw2) == from_be_bytes(sw2, sw1)

\* Status::from([u8; 2])
Status_from(sw1, sw2) == from_be_bytes(sw1, sw2)

\* run_command ends with the result res
RunEnd(res) ==
    /\ stack' = <<>>
    /\ pc' = "done"
    /\ ret' = [from |-> "run_command", res |-> res]
    /\ UNCHANGED rx_ret

\* run_command_buf_response from command.to_writer on, with the sender s, the
\* chunks rest still to write, the log lg, the send sequence bit seq and the
\* response buffer buf: up to the next bus access
RunOn(s, rest, lg, seq, buf) ==
    LET f == to_writer(s, rest)
    IN  /\ cmd_rest' = f.rest
        /\ tries' = IF f.kind = "flush" THEN 0 ELSE tries
        /\ UNCHANGED snd_chunk_len
        /\ IF f.kind = "err"
           THEN /\ SetSender(f.s)
                /\ iseq_snd' = seq
                /\ log' = lg
                /\ RunEnd(Err(ST1(f.e)))
                /\ RxIdle(buf)
           ELSE IF f.kind = "flush"
           THEN /\ SetSender(FramePrep(f.s, seq))
                /\ iseq_snd' = NextIseqSnd(seq)
                /\ log' = lg
                /\ RxIdle(buf)
                /\ IF WriteExhausted(0, retry_count)
                   THEN RunEnd(Err(ST1(TErr("Timeout"))))
                   ELSE /\ stack' = <<"run_command", "send_current_frame">>
                        /\ pc' = "snd_write"
                        /\ ret' = NoRet
                        /\ UNCHANGED rx_ret
           ELSE /\ SetSender(f.s)
                /\ iseq_snd' = seq
                /\ log' = Append(lg, EvD("wait_segt", segt))
                /\ RxEnter(<<"run_command">>, buf)

\* Se05X::run_command called by the user
CallRun ==
    /\ Idle
    /\ \E command \in Commands, n \in BufLens :
        /\ SetSender(FrameSender_new(Len(Flatten(command))))
        /\ cmd_rest' = command
        /\ RxIdle(Zeros(n))
    /\ tries' = 0
    /\ snd_chunk_len' = 0
    /\ stack' = <<"run_command">>
    /\ pc' = "run_to_writer"
    /\ ret' = NoRet
    /\ rx_ret' = NoRet.res
    /\ log' = <<>>
    /\ calls' = calls + 1
    /\ parsed' = NoParse
    /\ session' = NoSession
    /\ UNCHANGED <<engine, answers, last_atr>>

\* command.to_writer(&mut sender) up to the first bus access
RunToWriter ==
    /\ Top(stack) = "run_command" /\ pc = "run_to_writer"
    /\ RunOn(Sender, cmd_rest, log, iseq_snd, buffer)
    /\ UNCHANGED <<iseq_rcv, mpot, segt, bwt, retry_count, chip, last_atr, parsed, session>>

\* whether the frame sender is driven by run_command (else by its own user)
InRun == stack # <<>> /\ stack[1] = "run_command"

\* send_current_frame returned Ok(()): write_data returns the count to its
\* caller, which is command.to_writer in run_command
FlushDone(s, lg, seq) ==
    IF InRun
    THEN RunOn(s, cmd_rest, lg, seq, buffer)
    ELSE /\ SetSender(s)
         /\ log' = lg
         /\ iseq_snd' = seq
         /\ stack' = <<>>
         /\ pc' = "sender"
         /\ ret' = [from |-> "write_data", res |-> Ok(snd_chunk_len)]
         /\ UNCHANGED <<rx_ret, rxv, tries, cmd_rest, snd_chunk_len>>

\* send_current_frame returned Err(e), which write_data passes on
FlushFail(e) ==
    IF InRun
    THEN RunEnd(Err(ST1(e)))
    ELSE /\ stack' = <<>>
         /\ pc' = "sender"
         /\ ret' = [from |-> "write_data", res |-> Err(e)]
         /\ UNCHANGED rx_ret

\* variant: an acknowledgment is read after every frame
ExpectsAckAlways(is_last) == TRUE

\* whether send_current_frame reads an acknowledgment after the frame is sent
ExpectsAck(is_last) == ~is_last

\* one attempt of the write loop of send_current_frame
SndWrite ==
    /\ Top(stack) = "send_current_frame" /\ pc = "snd_write"
    /\ LET data_len == current_offset(Sender)
           is_last == snd_written = snd_data
           frame == Take(current_frame_buffer, data_len + HEADER_LEN + TRAILER_LEN)
           sent_ == [Sender EXCEPT !.sent = @ + data_len]
       IN  \/ \* acknowledged; the last frame of a message is not answered
              /\ ~ExpectsAck(is_last)
              /\ FlushDone(sent_, Append(log, EvW("snd_write", frame, "Ok")), iseq_snd)
              /\ UNCHANGED answers
           \/ \* acknowledged; a chained frame is answered by an R-block
              /\ ExpectsAck(is_last)
              /\ log' = log \o <<EvW("snd_write", frame, "Ok"), EvD("wait_segt", segt)>>
              /\ SetSender(sent_)
              /\ pc' = "snd_ack"
              /\ UNCHANGED <<stack, ret, rx_ret, iseq_snd, rxv, tries, cmd_rest,
                             snd_chunk_len, answers>>
           \/ \* not acknowledged: wait_segt and the next attempt, if one is left
              /\ answers < MaxAnswers
              /\ answers' = answers + 1
              /\ log' = log \o <<EvW("snd_write", frame, "AddressNack"),
                                 EvD("wait_segt", segt)>>
              /\ tries' = tries + 1
              /\ IF WriteExhausted(tries + 1, retry_count)
                 THEN FlushFail(TErr("Timeout"))
                 ELSE UNCHANGED ctl
              /\ UNCHANGED <<iseq_snd, rxv, snd_data, snd_written, snd_sent,
                             current_frame_buffer, cmd_rest, snd_chunk_len>>
           \/ \E o \in BusErrors \ {"AddressNack"} :
              /\ log' = Append(log, EvW("snd_write", frame, o))
              /\ FlushFail(WriteErr(o))
              /\ UNCHANGED <<iseq_snd, rxv, sndv, answers>>
    /\ UNCHANGED <<iseq_rcv, mpot, segt, bwt, retry_count, calls, last_atr, parsed, session>>

\* the acknowledgment of a chained frame is read and checked
SndAck ==
    /\ Top(stack) = "send_current_frame" /\ pc = "snd_ack"
    /\ \/ /\ answers < MaxAnswers
          /\ answers' = answers + 1
          /\ \E resp \in ChipReplies :
               LET lg == Append(log, EvR("snd_ack", 5, resp, "Ok"))
                   r == AckCheck(resp, iseq_snd)
               IN  IF r.tag = "Ok"
                   THEN FlushDone(Sender, lg, iseq_snd)
                   ELSE /\ log' = lg
                        /\ FlushFail(r.e)
                        /\ UNCHANGED <<iseq_snd, rxv, sndv>>
       \/ \E o \in BusErrors :
          /\ log' = Append(log, EvR("snd_ack", 5, <<>>, o))
          /\ FlushFail(ReadErr(o))
          /\ UNCHANGED <<iseq_snd, rxv, sndv, answers>>
    /\ UNCHANGED <<iseq_rcv, mpot, segt, bwt, retry_count, calls, last_atr, parsed, session>>

\* run_command after receive_data returned: receive_apdu splits off the status
\* word, run_command_buf_response checks it, run_command_internal parses
RunReturn ==
    /\ Top(stack) = "run_command" /\ pc = "ret" /\ ret.from = "receive_data"
    /\ IF ret.res.tag = "Err"
       THEN RunEnd(Err(ST1(ret.res.e))) /\ UNCHANGED <<parsed, session>>
       ELSE IF ret.res.v.kind = "SBlock"
       THEN RunEnd(Err(SLine(159))) /\ UNCHANGED <<parsed, session>>
       ELSE IF ~(ret.res.v.n >= 2)
       THEN RunEnd(Err(SLine(162))) /\ UNCHANGED <<parsed, session>>
       ELSE LET len == ret.res.v.n
                response == Take(buffer, len - 2)
                status == Status_from(buffer[len - 1], buffer[len])
            IN  IF status # StatusSuccess
                THEN RunEnd(Err(SStatus(status))) /\ UNCHANGED <<parsed, session>>
                ELSE /\ parsed' = [called |-> TRUE, bytes |-> response]
                     /\ \/ RunEnd(Ok(response))
                        \/ RunEnd(Err(STlv))
    /\ UNCHANGED <<engine, rxv, log, chip, last_atr, sndv, session>>

Next ==
    \/ SetRetryCount
    \/ CallReceive
    \/ CallResync
    \/ CallReset
    \/ RxTimeout
    \/ RxHeaderNack
    \/ RxHeaderFail
    \/ RxHeader
    \/ RxData
    \/ RxCrc
    \/ RxWtx
    \/ RxAck
    \/ ResyncReturn
    \/ ResetReturn
    \/ CallRun
    \/ RunToWriter
    \/ SndWrite
    \/ SndAck
    \/ RunReturn

Spec == Init /\ [][Next]_vars

(***************************************************************************)
(* The frame sender used on its own: into_writer, then calls of            *)
(* write_data.  The engine it borrows is in a state an earlier operation   *)
(* may have left: either send sequence bit, any configured retry count.    *)
(***************************************************************************)
\* the declared lengths into_writer is called with
SenderLens == {0, 2, MAX_FRAME_DATA_LEN + 1}

\* the slices write_data is called with
WriteChunks == {<<>>, Bytes(1, 0), Bytes(MAX_FRAME_DATA_LEN, 0), Bytes(MAX_FRAME_DATA_LEN + 1, 0)}

InitSender ==
    /\ iseq_snd \in BOOLEAN
    /\ iseq_rcv = FALSE
    /\ mpot = DMPOT_MS * 1000
    /\ segt = SEGT_US
    /\ retry_count \in RetryCounts
    /\ bwt = BWT_US
    /\ stack = <<>>
    /\ pc = "idle"
    /\ ret = NoRet
    /\ rx_ret = NoRet.res
    /\ buffer = <<>>
    /\ written = 0
    /\ rx_retry_count = 0
    /\ i = 0
    /\ header_buffer = <<>>
    /\ data_buf = <<>>
    /\ log = <<>>
    /\ answers = 0
    /\ calls = 0
    /\ last_atr = NoAtr
    /\ snd_data = 0
    /\ snd_written = 0
    /\ snd_sent = 0
    /\ current_frame_buffer = <<>>
    /\ tries = 0
    /\ cmd_rest = <<>>
    /\ snd_chunk_len = 0
    /\ parsed = NoParse
    /\ session = NoSession

\* IntoWriter::into_writer(to_write)
IntoWriter ==
    /\ stack = <<>> /\ pc = "idle"
    /\ \E to_write \in SenderLens : SetSender(FrameSender_new(to_write))
    /\ pc' = "sender"
    /\ UNCHANGED <<engine, stack, ret, rx_ret, rxv, log, chip, last_atr, tries, cmd_rest,
                   snd_chunk_len, parsed, session>>

\* FrameSender::write_data(data) up to the first attempt of the write loop of
\* send_current_frame, or to its return when no frame is flushed
WriteData ==
    /\ stack = <<>> /\ pc = "sender"
    /\ calls < MaxWrites
    /\ calls' = calls + 1
    /\ log' = <<>>
    /\ tries' = 0
    /\ \E data \in WriteChunks :
        LET w == write_data(Sender, data)
        IN  /\ cmd_rest' = <<data>>
            /\ IF w.res.tag = "Err" \/ ~w.flush
               THEN /\ SetSender(w.s)
                    /\ ret' = [from |-> "write_data", res |-> w.res]
                    /\ snd_chunk_len' = 0
                    /\ UNCHANGED <<stack, pc, iseq_snd>>
               ELSE /\ SetSender(FramePrep(w.s, iseq_snd))
                    /\ iseq_snd' = NextIseqSnd(iseq_snd)
                    /\ snd_chunk_len' = w.res.v
                    /\ IF WriteExhausted(0, retry_count)
                       THEN /\ ret' = [from |-> "write_data", res |-> Err(TErr("Timeout"))]
                            /\ UNCHANGED <<stack, pc>>
                       ELSE /\ stack' = <<"write_data", "send_current_frame">>
                            /\ pc' = "snd_write"
                            /\ ret' = NoRet
    /\ UNCHANGED <<iseq_rcv, mpot, segt, bwt, retry_count, rx_ret, rxv, answers, last_atr,
                   parsed, session>>

NextSender ==
    \/ IntoWriter
    \/ WriteData
    \/ SndWrite
    \/ SndAck

SpecSender == InitSender /\ [][NextSender]_vars

(***************************************************************************)
(* receive_data against a chip that answers without end: the bus accesses  *)
(* are not recorded and not counted.  The driver is one thread that blocks *)
(* on each bus access and delay, all of which complete: it keeps taking    *)
(* steps.  The engine is in the state interface_soft_reset leaves with an  *)
(* ATR of BWT 1 ms and MPOT 1 ms, and one more operation is started.       *)
(***************************************************************************)
LiveAtr == Atr_parse(AtrBytes(1, 1, 100, 4)).atr

InitLive ==
    /\ iseq_snd = Seq_ZERO
    /\ iseq_rcv = Seq_ZERO
    /\ mpot = AtrTiming(LiveAtr).mpot
    /\ segt = AtrTiming(LiveAtr).segt
    /\ retry_count = DEFAULT_RETRY_COUNT
    /\ bwt = AtrTiming(LiveAtr).bwt
    /\ stack = <<>>
    /\ pc = "done"
    /\ ret = [from |-> "interface_soft_reset", res |-> Ok(LiveAtr)]
    /\ rx_ret = Ok(SBlockRx("InterfaceSoftResetResponse", 0, AtrLen))
    /\ buffer = AtrBytes(1, 1, 100, 4) \o Zeros(RESET_BUFFER_LEN - AtrLen)
    /\ written = 0
    /\ rx_retry_count = RxBudget(BWT_US, DMPOT_MS * 1000)
    /\ i = 1
    /\ header_buffer = <<NAD_SE_TO_HD, to_byte(PcbS("InterfaceSoftResetResponse")), AtrLen>>
    /\ data_buf = AtrBytes(1, 1, 100, 4)
    /\ log = <<>>
    /\ answers = 0
    /\ calls = MaxCalls - 1
    /\ last_atr = [valid |-> TRUE, parsed |-> TRUE, atr |-> LiveAtr, call |-> MaxCalls - 1]
    /\ snd_data = 0
    /\ snd_written = 0
    /\ snd_sent = 0
    /\ current_frame_buffer = <<>>
    /\ tries = 0
    /\ cmd_rest = <<>>
    /\ snd_chunk_len = 0
    /\ parsed = NoParse
    /\ session = NoSession

LiveRxHeaderNack == RxHeaderNackOn(FALSE)

LiveRxHeaderFail == RxHeaderFailOn(FALSE)

LiveRxHeader == RxHeaderOn(FALSE)

LiveRxData == RxDataOn(FALSE)

LiveRxCrc == RxCrcOn(FALSE)

LiveRxWtx == RxWtxOn(FALSE)

LiveRxAck == RxAckOn(FALSE)

NextLive ==
    \/ CallReceive
    \/ RxTimeout
    \/ LiveRxHeaderNack
    \/ LiveRxHeaderFail
    \/ LiveRxHeader
    \/ LiveRxData
    \/ LiveRxCrc
    \/ LiveRxWtx
    \/ LiveRxAck

SpecLive == InitLive /\ [][NextLive]_vars /\ WF_vars(NextLive)

(***************************************************************************)
(* authenticate_aes128_session.  The handshake runs two session commands;  *)
(* here each run_session_command is one step from its invocation to its    *)
(* result, and the result is any the transport and the chip can produce:   *)
(* an error, or a response, with either value of the two sequence bits.    *)
(***************************************************************************)
DATA_DERIVATION_SENC == 4
DATA_DERIVATION_SMAC == 6
DATA_DERIVATION_SRMAC == 7
DATA_DERIVATION_L_128_BIT == 128
DATA_DERIVATION_KDF_CTR == 1
DATA_CARD_CRYPTOGRAM == 0
DATA_HOST_CRYPTOGRAM == 1
DATA_DERIVATION_L_64_BIT == 64

\* u16::to_be_bytes
to_be_bytes(v) == <<v \div 256, v % 256>>

\* Cmac<Aes128> with the given key over the message: a primitive of another
\* crate, stood in for by a deterministic keyed function to sixteen bytes
Cmac(key, message) ==
    LET c == Crc(key \o message)
    IN  [j \in 1..16 |-> ((IF j % 2 = 1 THEN c \div 256 ELSE c % 256) + 37 * j) % 256]

\* the derivation data: label, length in bits, counter and context
Dda(label, l, context) ==
    [k \in 1..32 |->
        IF k = 12 THEN label
        ELSE IF k = 14 THEN to_be_bytes(l)[1]
        ELSE IF k = 15 THEN to_be_bytes(l)[2]
        ELSE IF k = 16 THEN DATA_DERIVATION_KDF_CTR
        ELSE IF k > 16 THEN context[k - 16]
        ELSE 0]

\* the session MAC key
TagSmac(key, context) ==
    Cmac(key, Dda(DATA_DERIVATION_SMAC, DATA_DERIVATION_L_128_BIT, context))

\* the card cryptogram the host calculates
CalculatedCardCryptogram(key, context) ==
    Cmac(TagSmac(key, context),
         Dda(DATA_CARD_CRYPTOGRAM, DATA_DERIVATION_L_64_BIT, context))

\* the host cryptogram
HostCryptogram(key, context) ==
    Take(Cmac(TagSmac(key, context),
              Dda(DATA_HOST_CRYPTOGRAM, DATA_DERIVATION_L_64_BIT, context)), 8)

\* the MAC over the external-authenticate command
ExternalAuthenticateMac(key, context) ==
    Take(Cmac(TagSmac(key, context),
              Zeros(16) \o <<132, 130, 0, 0, 16>> \o HostCryptogram(key, context)), 8)

\* Se05xChallenge::try_from
Se05xChallenge_try_from(value) ==
    IF Len(value) < 29
    THEN Err(SLine(648))
    ELSE Ok([key_diversification_data |-> SubSeq(value, 1, 10),
             key_information |-> SubSeq(value, 11, 13),
             card_challenge |-> SubSeq(value, 14, 21),
             card_cryptogram |-> SubSeq(value, 22, 29)])

CryptogramMismatchNever(calculated_card_cryptogram, card_cryptogram) == FALSE

\* the test on the card cryptogram
CryptogramMismatch(calculated_card_cryptogram, card_cryptogram) ==
    Take(calculated_card_cryptogram, 8) # card_cryptogram

\* the keys of the host and of the chip, the challenges the two sides draw
SessionKeys == {Bytes(16, 64), Bytes(16, 65)}
HostChallenges == {Zeros(8), Bytes(8, 0)}
CardChallenges == {Zeros(8), Bytes(8, 16)}

\* the answer to ScpInitializeUpdate of a chip holding the given key
ChipChallenge(key, host_challenge, card_challenge) ==
    Zeros(10) \o <<1, 3, 0>> \o card_challenge
        \o Take(CalculatedCardCryptogram(key, host_challenge \o card_challenge), 8)

\* the responses run_session_command can hand back for ScpInitializeUpdate:
\* the answer of a chip with any of the keys, one with a cryptogram of
\* zeros, and one that is too short
InitializeUpdateResponses(host_challenge) ==
    {ChipChallenge(k, host_challenge, c) : k \in SessionKeys, c \in CardChallenges}
        \cup {Zeros(29), Zeros(28)}

\* the errors run_session_command can end with
SessionErrors == {ST1(TErr("Timeout")), SStatus(27010)}

\* run_session_command invoked with the named command and its data
EvCmd(command, data) ==
    [k |-> "cmd", at |-> command, b |-> data, n |-> Len(data), res |-> "Ok"]

\* authenticate_aes128_session returns
AuthEnd(res) ==
    /\ stack' = <<>>
    /\ pc' = "done"
    /\ ret' = [from |-> "authenticate_aes128_session", res |-> res]
    /\ UNCHANGED rx_ret

PropagateAsFalse(e) == AuthEnd(Ok(FALSE))

\* the ? on a run_session_command that failed
Propagate(e) == AuthEnd(Err(e))

\* what the transport does to the engine while a session command runs
SessionCommandRan ==
    /\ iseq_snd' \in BOOLEAN
    /\ iseq_rcv' \in BOOLEAN
    /\ UNCHANGED <<mpot, segt, bwt, retry_count>>

\* authenticate_aes128_session up to the invocation of ScpInitializeUpdate
CallAuthenticate ==
    /\ Idle
    /\ \E key \in SessionKeys, host_challenge \in HostChallenges :
        /\ session' = [key |-> key, host_challenge |-> host_challenge]
        /\ log' = <<EvCmd("ScpInitializeUpdate", host_challenge)>>
    /\ stack' = <<"authenticate_aes128_session">>
    /\ pc' = "ScpInitializeUpdate"
    /\ ret' = NoRet
    /\ rx_ret' = NoRet.res
    /\ calls' = calls + 1
    /\ parsed' = NoParse
    /\ UNCHANGED <<engine, rxv, answers, last_atr, sndv>>

\* from the result of ScpInitializeUpdate to the return or to the invocation
\* of ScpExternalAuthenticate
AuthInitializeUpdate ==
    /\ Top(stack) = "authenticate_aes128_session" /\ pc = "ScpInitializeUpdate"
    /\ \/ \E e \in SessionErrors :
            Propagate(e) /\ UNCHANGED <<parsed, log>>
       \/ \E response \in InitializeUpdateResponses(session.host_challenge) :
            LET chal == Se05xChallenge_try_from(response)
            IN  /\ parsed' = [called |-> TRUE, bytes |-> response]
                /\ IF chal.tag = "Err"
                   THEN AuthEnd(chal) /\ UNCHANGED log
                   ELSE LET key == session.key
                            context == session.host_challenge \o chal.v.card_challenge
                            calculated_card_cryptogram == CalculatedCardCryptogram(key, context)
                        IN  IF CryptogramMismatch(calculated_card_cryptogram,
                                                  chal.v.card_cryptogram)
                            THEN AuthEnd(Ok(FALSE)) /\ UNCHANGED log
                            ELSE /\ log' = Append(log, EvCmd("ScpExternalAuthenticate",
                                               HostCryptogram(key, context)
                                                   \o ExternalAuthenticateMac(key, context)))
                                 /\ pc' = "ScpExternalAuthenticate"
                                 /\ UNCHANGED <<stack, ret, rx_ret>>
    /\ SessionCommandRan
    /\ UNCHANGED <<rxv, chip, last_atr, sndv, session>>

\* from the result of ScpExternalAuthenticate to the return
AuthExternalAuthenticate ==
    /\ Top(stack) = "authenticate_aes128_session" /\ pc = "ScpExternalAuthenticate"
    /\ \/ \E e \in SessionErrors :
            Propagate(e) /\ UNCHANGED parsed
       \/ /\ parsed' = [called |-> TRUE, bytes |-> <<>>]
          /\ AuthEnd(Ok(TRUE))
    /\ SessionCommandRan
    /\ UNCHANGED <<rxv, log, chip, last_atr, sndv, session>>

NextSession ==
    \/ CallAuthenticate
    \/ AuthInitializeUpdate
    \/ AuthExternalAuthenticate

\* the driver used for session handshakes only
SpecSession == Init /\ [][NextSession]_vars

(***************************************************************************)
(* run_session_command beside run_command.  A command is run within a      *)
(* session, or the bytes of its envelope are run as a command of their     *)
(* own; session keeps which, for the length of the call.                   *)
(***************************************************************************)
\* run_command_internal entered with a command of the given chunks and length
RunInternal(command, len) ==
    /\ SetSender(FrameSender_new(len))
    /\ cmd_rest' = command
    /\ \E n \in BufLens : RxIdle(Zeros(n))
    /\ tries' = 0
    /\ snd_chunk_len' = 0
    /\ stack' = <<"run_command">>
    /\ pc' = "run_to_writer"
    /\ ret' = NoRet
    /\ rx_ret' = NoRet.res
    /\ log' = <<>>
    /\ calls' = calls + 1
    /\ parsed' = NoParse
    /\ UNCHANGED <<engine, answers, last_atr>>

\* Se05X::run_session_command called by the user
CallRunSession ==
    /\ Idle
    /\ \E session_id \in SessionIds, apdu \in SessionApdus :
        /\ session' = [within |-> TRUE, session_id |-> session_id, apdu |-> apdu]
        /\ RunInternal(ProcessSessionCmd_command(session_id, apdu),
                       ProcessSessionCmd_len(session_id, apdu))

\* Se05X::run_command called by the user with a command that serializes to
\* the bytes of an envelope in one piece
CallRunEnveloped ==
    /\ Idle
    /\ \E session_id \in SessionIds, apdu \in SessionApdus :
        LET bytes == Flatten(ProcessSessionCmd_command(session_id, apdu))
        IN  /\ session' = [within |-> FALSE, session_id |-> session_id, apdu |-> apdu]
            /\ RunInternal(<<bytes>>, Len(bytes))

NextWrapper ==
    \/ CallRunSession
    \/ CallRunEnveloped
    \/ RunToWriter
    \/ SndWrite
    \/ SndAck
    \/ RxTimeout
    \/ RxHeaderNack
    \/ RxHeaderFail
    \/ RxHeader
    \/ RxData
    \/ RxCrc
    \/ RxWtx
    \/ RxAck
    \/ RunReturn

SpecWrapper == Init /\ [][NextWrapper]_vars

(***************************************************************************)
(* Se05X::enable: resync, interface_soft_reset, then Select is run with a  *)
(* response buffer of nine bytes.  The log runs through the whole call.    *)
(***************************************************************************)
SELECT_BUFFER_LEN == 9

IsErrNever(res) == FALSE

\* the ? on the result of a step of enable
IsErr(res) == res.tag = "Err"

\* se05x::Atr::parse
Se05xAtr_parse(atr) ==
    IF Len(atr) # 7
    THEN Err(SLine(446))
    ELSE Ok([major |-> atr[1], minor |-> atr[2], patch |-> atr[3],
             secure_box_major |-> atr[6], secure_box_minor |-> atr[7],
             applet_config |-> from_be_bytes(atr[4], atr[5])])

\* Se05X::enable called by the user
CallEnable ==
    /\ Idle
    /\ ResyncBegin(<<"enable">>, <<>>)
    /\ calls' = calls + 1
    /\ UNCHANGED answers
    /\ SndClear
    /\ parsed' = NoParse
    /\ session' = Enabling
    /\ UNCHANGED <<engine, last_atr>>

\* enable returns the error of a step that failed
EnableFail(e) == Return("enable", Err(ST1(e)))

\* enable after resync returned
EnableResync ==
    /\ Top(stack) = "enable" /\ pc = "ret" /\ ret.from = "resync"
    /\ IF IsErr(ret.res)
       THEN /\ EnableFail(ret.res.e)
            /\ UNCHANGED <<rxv, log>>
       ELSE ResetBegin(<<"enable">>, log)
    /\ UNCHANGED <<engine, chip, last_atr, sndv, parsed, session>>

\* enable after interface_soft_reset returned: on success run_command is
\* entered with Select, and its result is the result of enable
EnableReset ==
    /\ Top(stack) = "enable" /\ pc = "ret" /\ ret.from = "interface_soft_reset"
    /\ IF IsErr(ret.res)
       THEN /\ EnableFail(ret.res.e)
            /\ UNCHANGED <<rxv, sndv>>
       ELSE /\ SetSender(FrameSender_new(SumLen(Select_command)))
            /\ cmd_rest' = Select_command
            /\ RxIdle(Zeros(SELECT_BUFFER_LEN))
            /\ tries' = 0
            /\ snd_chunk_len' = 0
            /\ stack' = <<"run_command">>
            /\ pc' = "run_to_writer"
            /\ ret' = NoRet
            /\ rx_ret' = NoRet.res
    /\ UNCHANGED <<engine, log, chip, last_atr, parsed, session>>

\* run_command with Select after receive_data returned
SelectReturn ==
    /\ Top(stack) = "run_command" /\ pc = "ret" /\ ret.from = "receive_data"
    /\ IF ret.res.tag = "Err"
       THEN RunEnd(Err(ST1(ret.res.e))) /\ UNCHANGED parsed
       ELSE IF ret.res.v.kind = "SBlock"
       THEN RunEnd(Err(SLine(159))) /\ UNCHANGED parsed
       ELSE IF ~(ret.res.v.n >= 2)
       THEN RunEnd(Err(SLine(162))) /\ UNCHANGED parsed
       ELSE LET len == ret.res.v.n
                response == Take(buffer, len - 2)
                status == Status_from(buffer[len - 1], buffer[len])
            IN  IF status # StatusSuccess
                THEN RunEnd(Err(SStatus(status))) /\ UNCHANGED parsed
                ELSE /\ parsed' = [called |-> TRUE, bytes |-> response]
                     /\ RunEnd(Se05xAtr_parse(response))
    /\ UNCHANGED <<engine, rxv, log, chip, last_atr, sndv, session>>

NextEnable ==
    \/ CallEnable
    \/ EnableResync
    \/ EnableReset
    \/ ResyncReturn
    \/ ResetReturn
    \/ RunToWriter
    \/ SndWrite
    \/ RxTimeout
    \/ RxHeaderNack
    \/ RxHeaderFail
    \/ RxHeader
    \/ RxData
    \/ RxCrc
    \/ SelectReturn

SpecEnable == Init /\ [][NextEnable]_vars

(***************************************************************************)
(* The sending half of run_command for a whole message: into_writer with   *)
(* the length of the message, to_writer with its chunks.  session holds    *)
(* the send sequence bit the engine starts with and the message.           *)
(***************************************************************************)
\* the messages, as the chunks to_writer writes: of 1, 254, 255, 508, 509 and
\* 600 bytes
Messages ==
    {<<Bytes(1, 0)>>,
     <<Bytes(MAX_FRAME_DATA_LEN, 0)>>,
     <<Bytes(4, 0), Bytes(251, 4)>>,
     <<Bytes(300, 0), Bytes(208, 300)>>,
     <<Bytes(MAX_FRAME_DATA_LEN, 0), Bytes(MAX_FRAME_DATA_LEN, 254), Bytes(1, 508)>>,
     <<Bytes(600, 0)>>}

InitMessage ==
    /\ iseq_snd \in BOOLEAN
    /\ iseq_rcv = Seq_ZERO
    /\ mpot = DMPOT_MS * 1000
    /\ segt = SEGT_US
    /\ retry_count = DEFAULT_RETRY_COUNT
    /\ bwt = BWT_US
    /\ stack = <<>>
    /\ pc = "idle"
    /\ ret = NoRet
    /\ rx_ret = NoRet.res
    /\ buffer = <<>>
    /\ written = 0
    /\ rx_retry_count = 0
    /\ i = 0
    /\ header_buffer = <<>>
    /\ data_buf = <<>>
    /\ log = <<>>
    /\ answers = 0
    /\ calls = 0
    /\ last_atr = NoAtr
    /\ snd_data = 0
    /\ snd_written = 0
    /\ snd_sent = 0
    /\ current_frame_buffer = <<>>
    /\ tries = 0
    /\ cmd_rest = <<>>
    /\ snd_chunk_len = 0
    /\ parsed = NoParse
    /\ session \in {[seq |-> iseq_snd, message |-> m] : m \in Messages}

\* run_command called with the message as its command
CallSend ==
    /\ stack = <<>> /\ calls = 0
    /\ SetSender(FrameSender_new(Len(Flatten(session.message))))
    /\ cmd_rest' = session.message
    /\ RxIdle(Zeros(2))
    /\ tries' = 0
    /\ snd_chunk_len' = 0
    /\ stack' = <<"run_command">>
    /\ pc' = "run_to_writer"
    /\ ret' = NoRet
    /\ rx_ret' = NoRet.res
    /\ log' = <<>>
    /\ calls' = calls + 1
    /\ parsed' = NoParse
    /\ UNCHANGED <<engine, answers, last_atr, session>>

NextMessage ==
    \/ CallSend
    \/ RunToWriter
    \/ SndWrite
    \/ SndAck

SpecMessage == InitMessage /\ [][NextMessage]_vars

(***************************************************************************)
(* The codecs called on their own: session holds the function called and   *)
(* its argument, ret what it returned.                                     *)
(***************************************************************************)
\* every Pcb
Pcbs ==
    {PcbI(seq, multi) : seq \in BOOLEAN, multi \in BOOLEAN}
        \cup {PcbR(seq, err) : seq \in BOOLEAN, err \in RBlockError}
        \cup {PcbS(block) : block \in SBlock}

\* u16::to_be_bytes
to_be_bytes16(x) == <<x \div 256, x % 256>>

\* the Atr of tests::atr
AtrFixture ==
    [pver |-> 0, vid |-> <<160, 0, 0, 3, 150>>, bwt |-> 1000, ifsc |-> 254,
     plid |-> 2, mcf |-> 1000, config |-> 8, mpot |-> 1, segt |-> 100, wut |-> 0,
     historical_bytes |-> <<74, 67, 79, 80, 52, 32, 65, 84, 80, 79>>]

\* Atr values: that of tests::atr, one whose 16-bit fields have two different
\* non-zero bytes each and no historical bytes, one with the largest values
AtrValues ==
    {AtrFixture,
     [pver |-> 1, vid |-> <<1, 2, 3, 4, 5>>, bwt |-> 258, ifsc |-> 772,
      plid |-> 6, mcf |-> 1286, config |-> 7, mpot |-> 8, segt |-> 2314,
      wut |-> 2828, historical_bytes |-> <<>>],
     [pver |-> 255, vid |-> <<255, 255, 255, 255, 255>>, bwt |-> 65535,
      ifsc |-> 65535, plid |-> 255, mcf |-> 65535, config |-> 255, mpot |-> 255,
      segt |-> 65535, wut |-> 65535, historical_bytes |-> <<255>>]}

\* a well-formed ATR with the fields of atr, laid out as the fixture of
\* tests::atr is: dllp_rest and plp_rest are bytes of the two parameter
\* blocks after the fields read, rfu the three reserved bytes, rest what
\* follows the historical bytes
AtrLayout(atr, dllp_rest, rfu, plp_rest, rest) ==
    LET dllp == to_be_bytes16(atr.bwt) \o to_be_bytes16(atr.ifsc) \o dllp_rest
        plp == to_be_bytes16(atr.mcf) \o <<atr.config, atr.mpot>> \o rfu
                   \o to_be_bytes16(atr.segt) \o to_be_bytes16(atr.wut) \o plp_rest
    IN  <<atr.pver>> \o atr.vid
            \o <<Len(dllp)>> \o dllp
            \o <<atr.plid>>
            \o <<Len(plp)>> \o plp
            \o <<Len(atr.historical_bytes)>> \o atr.historical_bytes
            \o rest

DllpRests == {<<>>, <<9>>}
Rfus == {<<0, 0, 0>>, <<1, 2, 3>>}
PlpRests == {<<>>, <<9, 9>>}
Rests == {<<>>, <<7>>}

\* the byte strings Atr::parse is called on: the well-formed ones, and every
\* proper prefix of the fixture of tests::atr
AtrInputs ==
    {AtrLayout(atr, d, r, p, t) :
         atr \in AtrValues, d \in DllpRests, r \in Rfus, p \in PlpRests, t \in Rests}
        \cup {Take(AtrBytes(1000, 1, 100, 4), n) : n \in 0..(AtrLen - 1)}

\* se05x::Error::Unknown
SUnknown == [e |-> "Unknown", t1 |-> TErr(""), l |-> 0, status |-> 0]

\* variant: the line number is not limited
LineUnlimited(l) == l

\* l.min(0x0FFF)
LineLimited(l) == Min(l, 4095)

\* impl From<Error> for Status: the 16-bit status word of an error
Status_from_Error(value) ==
    CASE value.e = "Status" -> value.status
      [] value.e = "Unknown" -> 0
      [] value.e = "Tlv" -> 1
      [] value.e = "T1" /\ value.t1.e = "Unknown" -> 2
      [] value.e = "T1" /\ value.t1.e = "AddressNack" -> 3
      [] value.e = "T1" /\ value.t1.e = "DataNack" -> 4
      [] value.e = "T1" /\ value.t1.e = "BadCrc" -> 5
      [] value.e = "T1" /\ value.t1.e = "BadPcb" -> 6
      [] value.e = "T1" /\ value.t1.e = "BadAddress" -> 7
      [] value.e = "T1" /\ value.t1.e = "ReceptionBuffer" -> 8
      [] value.e = "T1" /\ value.t1.e = "Timeout" -> 9
      [] value.e = "T1" /\ value.t1.e = "Line" ->
             (4096 + (LineLimited(value.t1.l) % 65536)) % 65536
      [] value.e = "Line" -> (8192 + (LineLimited(value.l) % 65536)) % 65536

\* line numbers: the smallest, that of se05x::Atr::parse, those around the
\* limit 0x0FFF and around 16 bits, and one of 31 bits
Lines == {0, 1, 446, 4094, 4095, 4096, 8191, 8192, 65535, 65536, 2147483647}

\* status words of a chip: wrong data, file not found, conditions not
\* satisfied, more data available, a retry counter, the ends of the ranges
\* 6xxx and 9xxx
ChipStatusWords == {24576, 24832, 25536, 27010, 27266, 28416, 28671, 36864, 36865, 40959}

\* words no chip answers with, among them those the mapping gives out
OtherStatusWords == {0, 1, 2, 9, 10, 4096, 8191, 8192, 12287, 12288, 65535}

\* the errors of t1 and se05x
T1Errors ==
    {TErr(name) : name \in {"Unknown", "AddressNack", "DataNack", "BadCrc", "BadPcb",
                            "BadAddress", "ReceptionBuffer", "Timeout"}}
        \cup {TLine(l) : l \in Lines}

Se05xErrors ==
    {SUnknown, STlv}
        \cup {ST1(e) : e \in T1Errors}
        \cup {SLine(l) : l \in Lines}
        \cup {SStatus(code) : code \in ChipStatusWords \cup OtherStatusWords}

\* the calls: Pcb::to_byte of every Pcb, Pcb::parse of every byte, Atr::parse
\* of the byte strings above, Status::from of every error above
CodecCalls ==
    {[fn |-> "Pcb::to_byte", arg |-> p] : p \in Pcbs}
        \cup {[fn |-> "Pcb::parse", arg |-> b] : b \in 0..255}
        \cup {[fn |-> "Atr::parse", arg |-> data] : data \in AtrInputs}
        \cup {[fn |-> "Status::from", arg |-> e] : e \in Se05xErrors}

InitCodec ==
    /\ iseq_snd = Seq_ZERO
    /\ iseq_rcv = Seq_ZERO
    /\ mpot = DMPOT_MS * 1000
    /\ segt = SEGT_US
    /\ retry_count = DEFAULT_RETRY_COUNT
    /\ bwt = BWT_US
    /\ stack = <<>>
    /\ pc = "call"
    /\ ret = NoRet
    /\ rx_ret = NoRet.res
    /\ buffer = <<>>
    /\ written = 0
    /\ rx_retry_count = 0
    /\ i = 0
    /\ header_buffer = <<>>
    /\ data_buf = <<>>
    /\ log = <<>>
    /\ answers = 0
    /\ calls = 0
    /\ last_atr = NoAtr
    /\ snd_data = 0
    /\ snd_written = 0
    /\ snd_sent = 0
    /\ current_frame_buffer = <<>>
    /\ tries = 0
    /\ cmd_rest = <<>>
    /\ snd_chunk_len = 0
    /\ parsed = NoParse
    /\ session \in CodecCalls

\* the function fn returns res; at is where the caller goes on
Returned(fn, res, at) ==
    /\ ret' = [from |-> fn, res |-> res]
    /\ pc' = at
    /\ UNCHANGED <<engine, stack, rx_ret, rxv, log, chip, last_atr, sndv, parsed, session>>

\* Pcb::to_byte of the argument
PcbToByte ==
    /\ pc = "call" /\ session.fn = "Pcb::to_byte"
    /\ Returned("Pcb::to_byte", Ok(to_byte(session.arg)), "encoded")

\* the result of Pcb::parse
PcbParsed(value) ==
    LET r == Pcb_parse(value)
    IN  IF r.ok THEN Ok(r.pcb) ELSE Err(TErr("BadPcb"))

\* Pcb::parse of the argument, or of the byte Pcb::to_byte has just returned
PcbParse ==
    \/ /\ pc = "call" /\ session.fn = "Pcb::parse"
       /\ Returned("Pcb::parse", PcbParsed(session.arg), "done")
    \/ /\ pc = "encoded"
       /\ Returned("Pcb::parse", PcbParsed(ret.res.v), "done")

\* Atr::parse of the argument
AtrParse ==
    /\ pc = "call" /\ session.fn = "Atr::parse"
    /\ LET r == Atr_parse(session.arg)
       IN  Returned("Atr::parse",
                    IF r.ok THEN Ok(r.atr) ELSE Err(TLine(r.line)), "done")

\* Status::from of the error in the argument
StatusFromError ==
    /\ pc = "call" /\ session.fn = "Status::from"
    /\ Returned("Status::from", Ok(Status_from_Error(session.arg)), "done")

NextCodec ==
    \/ PcbToByte
    \/ PcbParse
    \/ AtrParse
    \/ StatusFromError

SpecCodec == InitCodec /\ [][NextCodec]_vars

(***************************************************************************)
(* Reading the log of the current operation.                               *)
(***************************************************************************)
\* the positions of the log with an event at the given place
At(place) == {k \in 1..Len(log) : log[k].at = place}

\* the positions where receive_data read a trailer, i.e. a whole frame
RxCrcReads == {k \in At("rx_crc") : log[k].res = "Ok"}

\* the frame whose trailer was read at position k
FrameAt(k) ==
    LET hk == IF log[k - 1].at = "rx_hdr" THEN k - 1 ELSE k - 2
    IN  [h |-> log[hk].b, d |-> IF hk = k - 1 THEN <<>> ELSE log[k - 1].b, c |-> log[k].b]

\* a well-formed frame: chip-to-host address, data as long as the length
\* byte says, the checksum of header and data as trailer
WellFormed(f) ==
    /\ f.h[1] = NAD_SE_TO_HD
    /\ f.h[3] = Len(f.d)
    /\ f.c = to_le_bytes(Crc(f.h \o f.d))

\* a well-formed Information block with the given sequence bit and more flag
WellFormedI(f, seq, more) ==
    WellFormed(f) /\ f.h[2] = (IF seq THEN 64 ELSE 0) + (IF more THEN 32 ELSE 0)

\* the positions where receive_data wrote a frame
RxWrites == {k \in 1..Len(log) : log[k].k = "w" /\ log[k].at \in {"rx_ack", "rx_wtx"}}

\* a Receipt-acknowledgment frame, no error, carrying seq
RAck(seq) ==
    LET header == <<NAD_HD_TO_SE, 128 + (IF seq THEN 16 ELSE 0), 0>>
    IN  header \o to_le_bytes(Crc(header))

\* three chained Information blocks were read, with trailers at k1 < k2 < k3
Chain3(k1, k2, k3, s) ==
    /\ k1 < k2 /\ k2 < k3
    /\ RxCrcReads = {k1, k2, k3}
    /\ WellFormedI(FrameAt(k1), s, TRUE)
    /\ WellFormedI(FrameAt(k2), ~s, TRUE)
    /\ WellFormedI(FrameAt(k3), s, FALSE)

\* C1: when the chip has sent three well-formed Information blocks with
\* alternating sequence bits, the first two with the more flag and the third
\* without, receive_data has written exactly two frames, one right after each
\* of the first two blocks, each a no-error Receipt-acknowledgment carrying the
\* complement of the block's sequence bit (the new expected bit); nothing after
\* the third; and it returned IBlocks(n) with the first n bytes of the buffer
\* the three payloads in order.
C1_ChainedReception ==
    \A k1, k2, k3 \in RxCrcReads, s \in BOOLEAN :
        Chain3(k1, k2, k3, s) =>
            LET f1 == FrameAt(k1)
                f2 == FrameAt(k2)
                f3 == FrameAt(k3)
                n == Len(f1.d) + Len(f2.d) + Len(f3.d)
            IN  /\ RxWrites = {k1 + 1, k2 + 1}
                /\ log[k1 + 1].b = RAck(~s) /\ log[k1 + 1].res = "Ok"
                /\ log[k2 + 1].b = RAck(s) /\ log[k2 + 1].res = "Ok"
                /\ k3 = Len(log)
                /\ rx_ret = Ok(IBlocks(n))
                /\ Take(buffer, n) = f1.d \o f2.d \o f3.d

\* C1 witness: a chain of three blocks with payloads 00, 90, 90 was received
C1_Witness ==
    /\ \E k1, k2, k3 \in RxCrcReads, s \in BOOLEAN : Chain3(k1, k2, k3, s)
    /\ rx_ret = Ok(IBlocks(3))
    /\ buffer = <<0, 144, 144>>

\* the last position of the log with a WTX response written, 0 if none
LastWtx == IF At("rx_wtx") = {} THEN 0 ELSE CHOOSE k \in At("rx_wtx") : \A j \in At("rx_wtx") : j <= k

\* the header reads of receive_data after position k, by their outcome
HeaderReadsAfter(k, res) == {j \in At("rx_hdr") : j > k /\ log[j].res = res}

\* a WTX response frame carrying mult
WtxResponse(mult) ==
    LET frame == <<NAD_HD_TO_SE, 227, 1, mult>>
    IN  frame \o to_le_bytes(Crc(frame))

\* C2 as stated: after a WTX request carrying m, receive_data has echoed a WTX
\* response carrying m and polls from zero against the budget (bwt * m) / mpot
\* + 1; and it does not give up with Timeout while the not-ready polls after
\* the WTX stay within that budget.
C2_WtxRescales ==
    /\ (InRx("rx_hdr") /\ LastWtx # 0 /\ LastWtx + 1 = Len(log)) =>
           /\ log[LastWtx].b = WtxResponse(data_buf[1])
           /\ i = 0
           /\ rx_retry_count = ExactRescaled(bwt, data_buf[1], mpot)
    /\ (rx_ret = Err(TErr("Timeout")) /\ LastWtx # 0 /\ log[LastWtx].res = "Ok"
            /\ HeaderReadsAfter(LastWtx, "Ok") = {}) =>
           Cardinality(HeaderReadsAfter(LastWtx, "AddressNack"))
               >= ExactRescaled(bwt, log[LastWtx].b[4], mpot)

\* the writes of the frame sender, in order
IsSndWrite(e) == e.at = "snd_write"
SndWrites == SelectSeq(log, IsSndWrite)

RECURSIVE NacksBefore(_, _)
\* how many not-acknowledged attempts of the same frame precede attempt j
NacksBefore(ws, j) ==
    IF j > 1 /\ ws[j - 1].res = "AddressNack" /\ ws[j - 1].b = ws[j].b
    THEN 1 + NacksBefore(ws, j - 1)
    ELSE 0

\* C3: a flush attempts its write at most retry_count times; after k address
\* NACKs it goes on to the next attempt if k < retry_count and ends with
\* Timeout if k >= retry_count (with retry_count 0: without any attempt); any
\* other bus error ends it with that error, no further attempt made.
C3_WriteRetry ==
    LET ws == SndWrites
    IN  /\ \A j \in 1..Len(ws) : NacksBefore(ws, j) < retry_count
        /\ (Top(stack) = "send_current_frame" /\ pc = "snd_write") => tries < retry_count
        /\ (ws # <<>> /\ ws[Len(ws)].res = "AddressNack") =>
               IF NacksBefore(ws, Len(ws)) + 1 >= retry_count
               THEN pc = "done" /\ ret.res = Err(ST1(TErr("Timeout")))
               ELSE Top(stack) = "send_current_frame" /\ pc = "snd_write"
        /\ (retry_count = 0 /\ ret.from = "run_command") =>
               ws = <<>> /\ pc = "done" /\ ret.res = Err(ST1(TErr("Timeout")))
        /\ \A j \in 1..Len(ws) :
               ws[j].res \in {"DataNack", "Other"} =>
                   /\ j = Len(ws)
                   /\ log[Len(log)] = ws[j]
                   /\ pc = "done"
                   /\ ret.res = Err(ST1(IF ws[j].res = "DataNack" THEN TErr("DataNack")
                                        ELSE TLine(452)))

\* C3 witness: with retry_count 1 the only attempt was not acknowledged and the
\* flush ended with Timeout
C3_Witness ==
    /\ retry_count = 1
    /\ Len(SndWrites) = 1
    /\ SndWrites[1].res = "AddressNack"
    /\ pc = "done"
    /\ ret.res = Err(ST1(TErr("Timeout")))

\* C4 as stated: a receive_data that was answered by address NACKs only and
\* returned Timeout has made bwt / mpot + 1 header reads, each followed by a
\* wait of one poll interval.
C4_TimeoutAfterBudget ==
    (rx_ret = Err(TErr("Timeout")) /\ LastWtx = 0 /\ HeaderReadsAfter(0, "Ok") = {}) =>
        /\ Cardinality(HeaderReadsAfter(0, "AddressNack")) = bwt \div mpot + 1
        /\ \A k \in HeaderReadsAfter(0, "AddressNack") :
               k < Len(log) /\ log[k + 1] = EvD("wait_mpot", mpot)

\* C5 as stated: no operation returns the address-not-acknowledged error.
C5_NackNeverSurfaces ==
    /\ ~(ret.res.tag = "Err" /\ ret.res.e.e = "AddressNack")
    /\ ~(ret.res.tag = "Err" /\ ret.res.e.e = "T1" /\ ret.res.e.t1.e = "AddressNack")

\* run_command has ended
RunEnded == pc = "done" /\ ret.from = "run_command"

\* receive_data handed run_command a response of at least two bytes
ApduRead == rx_ret.tag = "Ok" /\ rx_ret.v.kind = "IBlocks" /\ rx_ret.v.n >= 2

\* the last two bytes of the response
StatusBytes == <<buffer[rx_ret.v.n - 1], buffer[rx_ret.v.n]>>

\* C6: when the response ends in a status word other than 90 00, run_command
\* returns Status(code), code being the last two bytes read big-endian, and
\* the response parser is not invoked; the parser is invoked only on status
\* 90 00 (then always), on exactly the bytes before the status word.
C6_StatusWord ==
    /\ parsed.called =>
           /\ ApduRead
           /\ StatusBytes = <<144, 0>>
           /\ parsed.bytes = SubSeq(buffer, 1, rx_ret.v.n - 2)
    /\ (RunEnded /\ ApduRead) =>
           IF StatusBytes = <<144, 0>>
           THEN parsed.called
           ELSE /\ ret.res = Err(SStatus(256 * StatusBytes[1] + StatusBytes[2]))
                /\ ~parsed.called

\* C6 witness: the response 00 90 ended run_command with Status(0x0090)
C6_Witness ==
    /\ RunEnded
    /\ ApduRead
    /\ StatusBytes = <<0, 144>>
    /\ ret.res = Err(SStatus(144))

\* resync has ended
ResyncEnded == pc = "done" /\ ret.from = "resync"

\* the resync-request frame
ResyncRequest ==
    LET header == <<NAD_HD_TO_SE, 192, 0>>
    IN  header \o to_le_bytes(Crc(header))

\* the only reply resync takes
ResyncReply == Ok(SBlockRx("ResyncResponse", 0, 0))

\* C7: resync writes exactly one resync-request frame, first of all, and
\* waits the guard time after it; it returns Ok only if receive_data handed it
\* a ResyncResponse block with no data and no Information data before it, and
\* then both sequence bits are zero; on any other reply it returns BadPcb or
\* the error of the transport.
C7_Resync ==
    ResyncEnded =>
        /\ log # <<>>
        /\ {k \in 1..Len(log) : log[k].k = "w" /\ log[k].b = ResyncRequest} = {1}
        /\ log[1].res = "Ok" => (Len(log) >= 2 /\ log[2] = EvD("wait_segt", segt))
        /\ ret.res.tag = "Ok" =>
               /\ rx_ret = ResyncReply
               /\ FrameAt(Len(log)).h = <<NAD_SE_TO_HD, 224, 0>>
               /\ iseq_snd = FALSE
               /\ iseq_rcv = FALSE
        /\ (ret.res.tag # "Panic" /\ rx_ret # ResyncReply) =>
               /\ ret.res.tag = "Err"
               /\ rx_ret.tag = "Ok" => ret.res.e = TErr("BadPcb")
               /\ rx_ret.tag = "Err" => ret.res.e = rx_ret.e
               /\ rx_ret.tag = "None" =>
                      /\ log[1].res # "Ok"
                      /\ ret.res.e \in {TErr("AddressNack"), TErr("DataNack"), TLine(452)}

\* C7 witness: resync succeeded as the second operation
C7_Witness ==
    /\ ResyncEnded
    /\ ret.res.tag = "Ok"
    /\ calls = 2

\* an operation started after the last successful interface_soft_reset
AfterReset == last_atr.valid /\ calls > last_atr.call

\* C8: after interface_soft_reset returned a parsed ATR, both sequence bits
\* are zero, and until the next reset mpot = 1000 * MPOT, segt = SEGT and
\* bwt = 1000 * BWT of that ATR; every later receive_data starts with the
\* budget bwt / mpot + 1 and waits mpot after a not-ready poll, every wait of
\* the guard time is segt.
C8_NegotiatedTiming ==
    /\ (last_atr.valid /\ last_atr.parsed) =>
           /\ mpot = 1000 * last_atr.atr.mpot
           /\ segt = last_atr.atr.segt
           /\ bwt = 1000 * last_atr.atr.bwt
    /\ (pc = "done" /\ ret.from = "interface_soft_reset" /\ ret.res.tag = "Ok"
            /\ last_atr.parsed) =>
           /\ iseq_snd = FALSE
           /\ iseq_rcv = FALSE
           /\ ret.res.v = last_atr.atr
           /\ Atr_parse(FrameAt(Len(log)).d) = [ok |-> TRUE, atr |-> last_atr.atr]
    /\ (AfterReset /\ last_atr.parsed) =>
           /\ \A k \in At("wait_mpot") : log[k].n = 1000 * last_atr.atr.mpot
           /\ \A k \in At("wait_segt") : log[k].n = last_atr.atr.segt
           /\ (Top(stack) = "receive_data" /\ LastWtx = 0) =>
                  rx_retry_count =
                      (1000 * last_atr.atr.bwt) \div (1000 * last_atr.atr.mpot) + 1

\* C8 witness: after the ATR of tests::atr was negotiated, a receive_data
\* polled, was answered not-ready and waited
C8_Witness ==
    /\ AfterReset
    /\ last_atr.parsed
    /\ last_atr.atr.bwt = 1000 /\ last_atr.atr.mpot = 1 /\ last_atr.atr.segt = 100
    /\ Top(stack) = "receive_data"
    /\ At("wait_mpot") # {}

\* the timing parameters T1oI2C::new sets
NewTiming == [mpot |-> DMPOT_MS * 1000, segt |-> SEGT_US, bwt |-> BWT_US]

\* C9 as stated: after interface_soft_reset got a malformed ATR, the record it
\* returned is the default one and the engine's timing parameters are a
\* built-in default set (that of the default record, or that of a new
\* engine), not the values of an earlier negotiation.
C9_DefaultsOnMalformedAtr ==
    (last_atr.valid /\ ~last_atr.parsed) =>
        /\ last_atr.atr = Atr_default
        /\ [mpot |-> mpot, segt |-> segt, bwt |-> bwt]
               \in {NewTiming, AtrTiming(Atr_default)}

\* C10 as stated: a frame that passed the length and address checks and whose
\* trailer is not the checksum of header and data makes receive_data return
\* BadCrc, with nothing written after it.
C10_BadCrc ==
    \A k \in RxCrcReads :
        FrameAt(k).c # to_le_bytes(Crc(FrameAt(k).h \o FrameAt(k).d)) =>
            /\ k = Len(log)
            /\ rx_ret = Err(TErr("BadCrc"))

\* whether the frame whose trailer was read at k is an Information block
IsIFrame(k) == FrameAt(k).h[2] \in {0, 32, 64, 96}

RECURSIVE AccUpTo(_)
\* the data bytes of the Information blocks read up to position k of the log
AccUpTo(k) ==
    IF k = 0 THEN 0
    ELSE (IF k \in RxCrcReads /\ IsIFrame(k) THEN Len(FrameAt(k).d) ELSE 0) + AccUpTo(k - 1)

\* the header read at k announces more than a frame may carry or more than is
\* left of the buffer
Oversized(k) ==
    \/ log[k].b[3] > 254
    \/ AccUpTo(k) + log[k].b[3] > Len(buffer)

\* C11: the count of accumulated bytes never exceeds the length of the
\* caller's buffer; a header announcing more than 254 bytes or more than the
\* remaining space is the last bus access of receive_data, which returns
\* ReceptionBuffer, and the buffer holds what the earlier Information blocks
\* carried and nothing else.
C11_BufferBound ==
    /\ written <= Len(buffer)
    /\ \A k \in HeaderReadsAfter(0, "Ok") :
           Oversized(k) =>
               /\ k = Len(log)
               /\ rx_ret = Err(TErr("ReceptionBuffer"))
               /\ written = AccUpTo(k)
               /\ \A j \in (AccUpTo(k) + 1)..Len(buffer) : buffer[j] = 0
    /\ \A k \in HeaderReadsAfter(0, "Ok") :
           (k < Len(log) /\ log[k + 1].at = "rx_data") => log[k + 1].n = log[k].b[3]

\* C11 witness: two bytes are accumulated in a buffer of three when a header
\* announcing 35 bytes is read, and receive_data returned ReceptionBuffer
C11_Witness ==
    /\ Len(buffer) = 3
    /\ written = 2
    /\ log # <<>>
    /\ log[Len(log)].at = "rx_hdr"
    /\ log[Len(log)].res = "Ok"
    /\ log[Len(log)].b[3] = AtrLen
    /\ rx_ret = Err(TErr("ReceptionBuffer"))

\* C11 witness of the frame maximum: a buffer of 255 bytes, a header
\* announcing 255
C11_WitnessMax ==
    /\ Len(buffer) = 255
    /\ log # <<>>
    /\ log[Len(log)].at = "rx_hdr"
    /\ log[Len(log)].res = "Ok"
    /\ log[Len(log)].b[3] = 255
    /\ rx_ret = Err(TErr("ReceptionBuffer"))

(***************************************************************************)
(* The frame sender.                                                       *)
(***************************************************************************)
\* the user of the frame sender calls write_data in this step
WriteCall == stack = <<>> /\ pc = "sender" /\ calls' = calls + 1

\* the slice write_data is called with in this step
WriteArg == cmd_rest'[1]

\* how many bytes of the slice fit in the current frame
Consumed == Min(254 - (snd_written - snd_sent), Len(WriteArg))

\* the slice does not exceed the declared length
WriteFits == Len(WriteArg) + snd_written <= snd_data

\* the write fills the frame to 254 data bytes, or brings the total written to
\* the declared length
FillsOrCompletes ==
    /\ WriteArg # <<>>
    /\ \/ (snd_written - snd_sent) + Consumed = 254
       \/ snd_written + Consumed = snd_data

\* after this step the first write of the frame on the bus is due
WriteDue == Top(stack') = "send_current_frame" /\ pc' = "snd_write"

\* write_data returns in this step, having buffered the bytes and no more
OnlyBuffered ==
    /\ stack' = <<>> /\ pc' = "sender"
    /\ ret' = [from |-> "write_data", res |-> Ok(Consumed)]
    /\ log' = <<>>
    /\ iseq_snd' = iseq_snd /\ iseq_rcv' = iseq_rcv
    /\ snd_written' = snd_written + Consumed
    /\ snd_sent' = snd_sent
    /\ snd_data' = snd_data
    /\ \A k \in 1..Len(current_frame_buffer) :
           current_frame_buffer'[k] =
               IF k > 3 + (snd_written - snd_sent) /\ k <= 3 + (snd_written - snd_sent) + Consumed
               THEN WriteArg[k - 3 - (snd_written - snd_sent)]
               ELSE current_frame_buffer[k]

\* the step due at the head of the write loop is a write on the bus
WriteLoopWrites ==
    (Top(stack) = "send_current_frame" /\ pc = "snd_write") =>
        /\ Len(log') > Len(log)
        /\ log'[Len(log) + 1].k = "w"

\* C12 as stated: a write that stays within the declared length leads to a
\* write on the bus if and only if it fills the frame or completes the
\* message; otherwise it returns the count consumed with the bytes buffered,
\* the bus and both sequence bits untouched.
C12_AsStated ==
    [][/\ (WriteCall /\ WriteFits) => IF FillsOrCompletes THEN WriteDue ELSE OnlyBuffered
       /\ WriteLoopWrites]_vars

\* C12 amended: as above, except that with a retry count of zero the flush
\* makes no attempt on the bus and the write returns Timeout.
C12_Buffering ==
    [][/\ (WriteCall /\ WriteFits) =>
              IF FillsOrCompletes
              THEN IF retry_count = 0
                   THEN /\ stack' = <<>>
                        /\ ret' = [from |-> "write_data", res |-> Err(TErr("Timeout"))]
                        /\ log' = <<>>
                   ELSE WriteDue
              ELSE OnlyBuffered
       /\ WriteLoopWrites]_vars

\* C12 witness: of a message of two bytes the first was buffered without any
\* bus access and the second write sent the frame carrying both
C12_Witness ==
    /\ pc = "sender"
    /\ snd_data = 2 /\ snd_written = 2 /\ snd_sent = 2
    /\ ret = [from |-> "write_data", res |-> Ok(1)]
    /\ Len(log) = 1
    /\ log[1].k = "w" /\ log[1].res = "Ok" /\ log[1].b[3] = 2

\* the acknowledgment reads of the frame sender that were answered
AckReads == {k \in At("snd_ack") : log[k].res = "Ok"}

\* the sequence bit of the Information block written before the read at k
SentSeq(k) == log[k - 2].b[2] \div 64 = 1

\* the reply that acknowledges a chained frame: chip-to-host address,
\* Receipt-acknowledgment without error carrying seq, length zero, checksum
ProperAck(seq) ==
    LET header == <<NAD_SE_TO_HD, 128 + (IF seq THEN 16 ELSE 0), 0>>
    IN  header \o to_le_bytes(Crc(header))

\* write_data has returned to the user of the frame sender
WriteReturned == stack = <<>> /\ pc = "sender" /\ ret.from = "write_data"

\* C13 as stated: after a chained frame the flush succeeds exactly when the
\* reply read is the no-error Receipt-acknowledgment carrying the send
\* sequence bit as flipped by the flush, with chip-to-host address, length
\* zero and the right checksum; any other reply makes write_data fail.
C13_AckChecked ==
    \A k \in AckReads :
        /\ k = Len(log)
        /\ WriteReturned
        /\ ret.res.tag = "Ok" <=> log[k].b = ProperAck(~SentSeq(k))

\* the positions where the frame sender's write of a frame was acknowledged
SndOk == {k \in At("snd_write") : log[k].res = "Ok"}

\* whether the frame written at k carries the more-data flag
MoreFlag(k) == (log[k].b[2] \div 32) % 2 = 1

\* the bus reads of the operation
BusReads == {k \in 1..Len(log) : log[k].k = "r"}

\* the first position after k that is in set, 0 if there is none
FirstAfter(k, set) ==
    IF {j \in set : j > k} = {} THEN 0
    ELSE CHOOSE j \in set : j > k /\ \A j2 \in set : j2 > k => j <= j2

\* C14: after a frame without the more-data flag was sent, the frame sender
\* reads nothing: if the operation reads the bus again, it is the header read
\* of receive_data; after a frame with the flag was sent, there is exactly one
\* read, of five bytes and by the frame sender, before the next frame is
\* written, and none other than that before the operation ends.
C14_NoAckForFinal ==
    \A k \in SndOk :
        LET nextw == FirstAfter(k, At("snd_write"))
            nextr == FirstAfter(k, BusReads)
            upto == IF nextw = 0 THEN Len(log) ELSE nextw
            between == {j \in BusReads : k < j /\ j < upto + (IF nextw = 0 THEN 1 ELSE 0)}
        IN  IF MoreFlag(k)
            THEN /\ Cardinality(between) <= 1
                 /\ nextw # 0 => Cardinality(between) = 1
                 /\ \A j \in between : log[j].at = "snd_ack" /\ log[j].n = 5
                 /\ nextw # 0 => \A j \in between : log[j].res = "Ok"
            ELSE /\ nextw = 0
                 /\ \A j \in BusReads : j > k => log[j].at # "snd_ack"
                 /\ nextr # 0 => log[nextr].at = "rx_hdr" /\ log[nextr].n = 3

\* C14 witness: a command of two frames was sent, one acknowledgment read
\* between them, and the response header was read after the second
C14_Witness ==
    /\ Cardinality(SndOk) = 2
    /\ Cardinality(At("snd_ack")) = 1
    /\ \E k \in SndOk : ~MoreFlag(k) /\ FirstAfter(k, BusReads) # 0

\* C15: a write whose slice would take the total written beyond the declared
\* length returns the error of line 722 in the same step, with no bus access,
\* and leaves the frame buffer, the written and sent counters and both
\* sequence bits as they were.
C15_OverLongWrite ==
    [][(WriteCall /\ ~WriteFits) =>
           /\ stack' = <<>> /\ pc' = "sender"
           /\ ret' = [from |-> "write_data", res |-> Err(TLine(722))]
           /\ log' = <<>>
           /\ UNCHANGED <<snd_data, snd_written, snd_sent, current_frame_buffer,
                          iseq_snd, iseq_rcv, answers>>]_vars

\* C15 witness: one byte of a message of two is buffered, and a write of 254
\* bytes was refused
C15_Witness ==
    /\ WriteReturned
    /\ ret.res = Err(TLine(722))
    /\ snd_data = 2 /\ snd_written = 1 /\ snd_sent = 0
    /\ Len(cmd_rest[1]) = 254
    /\ log = <<>>

\* write_data returned the error of a flush whose write of the frame failed:
\* not the refusal of an over-long slice, and no acknowledgment was read
FlushWriteFailed ==
    /\ WriteReturned
    /\ ret.res.tag = "Err"
    /\ ret.res.e # TLine(722)
    /\ At("snd_ack") = {}

\* the sequence bit the frame in the sender's buffer carries, which is the
\* send sequence bit the flush started with
FrameSeq == (current_frame_buffer[2] \div 64) % 2 = 1

\* C16 as stated: after a flush whose write failed (Timeout, or another bus
\* error) the send sequence bit is the one the flush started with.
C16_SeqKeptOnFailedWrite ==
    FlushWriteFailed => iseq_snd = FrameSeq

\* the frame sender is at work: command.to_writer, a flush, its acknowledgment
Sending == pc \in {"run_to_writer", "snd_write", "snd_ack"}

\* receive_data is at work
Receiving == Top(stack) = "receive_data"

\* resync or interface_soft_reset returns Ok in this step
ResetsLink ==
    /\ ret' # ret
    /\ ret'.from \in {"resync", "interface_soft_reset"}
    /\ ret'.res.tag = "Ok"

\* C17: no step of the frame sender changes the receive sequence bit, no step
\* of receive_data changes the send sequence bit; any other step that changes
\* one of them is the successful return of resync or interface_soft_reset,
\* and every such return leaves both bits zero.
C17_SeqBitsIndependent ==
    [][/\ Sending => iseq_rcv' = iseq_rcv
       /\ Receiving => iseq_snd' = iseq_snd
       /\ ((iseq_snd' # iseq_snd /\ ~Sending) \/ (iseq_rcv' # iseq_rcv /\ ~Receiving))
              => ResetsLink
       /\ ResetsLink => (iseq_snd' = FALSE /\ iseq_rcv' = FALSE)]_vars

\* C17 witness: a command round trip has ended well; sending has flipped the
\* send sequence bit, receiving two chained blocks has left the receive
\* sequence bit at zero
C17_Witness ==
    /\ RunEnded
    /\ ret.res.tag = "Ok"
    /\ Cardinality(RxCrcReads) = 2
    /\ iseq_snd = TRUE
    /\ iseq_rcv = FALSE

\* C18 as stated: every call of receive_data eventually returns (or panics),
\* whatever the chip answers.
C18_ReceiveTerminates == Receiving ~> ~Receiving

\* the interface-soft-reset request frame
ResetRequest ==
    LET header == <<NAD_HD_TO_SE, 207, 0>>
    IN  header \o to_le_bytes(Crc(header))

\* the operation in progress, or the one that ended last
Op == IF stack # <<>> THEN stack[1] ELSE ret.from

\* run_command returns an error in this step
RunFails == ret' # ret /\ ret'.from = "run_command" /\ ret'.res.tag \in {"Err", "Panic"}

\* C19: a resync request is written only by resync and an interface-reset
\* request only by interface_soft_reset, never by run_command, whether it
\* fails or not; within run_command the send sequence bit changes only where
\* the frame sender flushes a frame and the receive sequence bit only where
\* receive_data takes an Information block, and the step in which
\* run_command returns an error changes neither beyond such a flush.
C19_NoAutomaticRecovery ==
    [][/\ \A k \in 1..Len(log') :
              /\ (log'[k].k = "w" /\ log'[k].b = ResyncRequest) => Op' = "resync"
              /\ (log'[k].k = "w" /\ log'[k].b = ResetRequest) => Op' = "interface_soft_reset"
       /\ InRun =>
              /\ iseq_snd' # iseq_snd =>
                     /\ Sending
                     /\ iseq_snd' = ~FrameSeq'
              /\ iseq_rcv' # iseq_rcv => (Receiving /\ pc = "rx_crc")
       /\ RunFails => (iseq_rcv' = iseq_rcv /\ (iseq_snd' # iseq_snd => tries' = 0))]_vars

\* C19 witness: run_command has failed on a bad checksum of the response
\* after sending its frame, the send sequence bit is left at one
C19_Witness ==
    /\ RunEnded
    /\ ret.res = Err(ST1(TErr("BadCrc")))
    /\ SndOk # {}
    /\ iseq_snd = TRUE

\* the handshake has returned
AuthEnded == pc = "done" /\ ret.from = "authenticate_aes128_session"

\* run_session_command was invoked with ScpExternalAuthenticate
ExternalAuthenticateSent == At("ScpExternalAuthenticate") # {}

\* the bytes are a whole answer to ScpInitializeUpdate whose card cryptogram
\* is not the one the host calculates from its key and the two challenges
WrongCryptogram(bytes) ==
    /\ Len(bytes) >= 29
    /\ Take(CalculatedCardCryptogram(session.key,
                session.host_challenge \o SubSeq(bytes, 14, 21)), 8)
         # SubSeq(bytes, 22, 29)

\* C20: when the answer to ScpInitializeUpdate carries a card cryptogram
\* that differs from the one the host recomputes, the handshake returns
\* Ok(false) at once and ScpExternalAuthenticate is not transmitted
C20_MismatchNotAuthenticated ==
    [][(pc = "ScpInitializeUpdate" /\ parsed'.called /\ WrongCryptogram(parsed'.bytes))
        => /\ AuthEnded'
           /\ ret'.res = Ok(FALSE)
           /\ ~ExternalAuthenticateSent'
           /\ log' = log]_vars

\* a handshake that ended as not authenticated on a wrong card cryptogram,
\* with ScpInitializeUpdate the only command transmitted
C20_Witness ==
    /\ AuthEnded
    /\ ret.res = Ok(FALSE)
    /\ parsed.called /\ WrongCryptogram(parsed.bytes)
    /\ Len(log) = 1 /\ log[1].at = "ScpInitializeUpdate"

\* a handshake that went on to ScpExternalAuthenticate and ended authenticated
C20_Authenticated ==
    /\ AuthEnded
    /\ ret.res = Ok(TRUE)
    /\ ExternalAuthenticateSent

\* the session command invoked last came back with a success status in this
\* step: run_command_internal hands its response to the parser
ExchangeOk == parsed'.called /\ (parsed' # parsed \/ ~parsed.called)

\* the handshake is waiting for the named session command
Awaiting(command) == Top(stack) = "authenticate_aes128_session" /\ pc = command

\* the commands transmitted so far, in order
Transmitted == [k \in 1..Len(log) |-> log[k].at]

\* C21: the handshake returns Ok(true) only in the step in which
\* ScpExternalAuthenticate comes back with a success status, after
\* ScpInitializeUpdate came back with a whole challenge whose card cryptogram
\* is the one the host calculates, the two commands transmitted in this
\* order; and when either command comes back with an error the handshake
\* returns an error.
C21_HandshakeOrdering ==
    [][/\ (AuthEnded' /\ ~AuthEnded /\ ret'.res = Ok(TRUE)) =>
              /\ Awaiting("ScpExternalAuthenticate")
              /\ ExchangeOk
              /\ parsed.called /\ Len(parsed.bytes) >= 29
              /\ ~WrongCryptogram(parsed.bytes)
              /\ Transmitted = <<"ScpInitializeUpdate", "ScpExternalAuthenticate">>
       /\ ((Awaiting("ScpInitializeUpdate") \/ Awaiting("ScpExternalAuthenticate"))
              /\ ~ExchangeOk) =>
              /\ AuthEnded'
              /\ ret'.res.tag = "Err"
              /\ ret'.res.e \in SessionErrors]_vars

\* C21 witness: an authenticated handshake, both commands transmitted
C21_Witness ==
    /\ AuthEnded
    /\ ret.res = Ok(TRUE)
    /\ Transmitted = <<"ScpInitializeUpdate", "ScpExternalAuthenticate">>
    /\ parsed = [called |-> TRUE, bytes |-> <<>>]

\* a handshake that ended with the error of its second command
C21_WitnessError ==
    /\ AuthEnded
    /\ ret.res.tag = "Err"
    /\ Len(log) = 2

\* the bytes of the envelope the current call runs, within a session or as a
\* command of their own
EnvelopedBytes ==
    [id \in SessionIds, apdu \in SessionApdus |-> Flatten(ProcessSessionCmd_command(id, apdu))]
Enveloped(ses) == EnvelopedBytes[ses.session_id, ses.apdu]

\* the user calls run_session_command or run_command in this step
RunCalled == stack = <<>> /\ stack' = <<"run_command">>

\* the sender that command.to_writer goes on with at this point of the call
WriterAt ==
    IF pc = "snd_write" THEN [Sender EXCEPT !.sent = snd_written] ELSE Sender

\* command.to_writer does to the sender what it would do if the chunks still
\* to write came as one
ChunksDoNotMatter ==
    LET f == to_writer(WriterAt, cmd_rest)
        g == to_writer(WriterAt, <<Flatten(cmd_rest)>>)
    IN  /\ f.kind = g.kind
        /\ f.s = g.s
        /\ f.e = g.e
        /\ Flatten(f.rest) = Flatten(g.rest)

\* the frame written at position k of the log is the one that carries the
\* next bytes of the message, MAX_FRAME_DATA_LEN at most, flagged when more follow
CarriesNext(k, bytes) ==
    LET before == Cardinality({m \in SndOk : m < k}) * MAX_FRAME_DATA_LEN
        upto == Min(before + MAX_FRAME_DATA_LEN, Len(bytes))
        frame == log[k].b
    IN  /\ frame[1] = NAD_HD_TO_SE
        /\ frame[3] = upto - before
        /\ SubSeq(frame, HEADER_LEN + 1, HEADER_LEN + frame[3]) = SubSeq(bytes, before + 1, upto)
        /\ MoreFlag(k) = (upto < Len(bytes))
        /\ Len(frame) = HEADER_LEN + frame[3] + TRAILER_LEN

\* C22: run_session_command starts the link as run_command does for the bytes
\* of the envelope: the engine untouched, a sender declared for their number,
\* the chunks to write making up these bytes; from there on the chunking is
\* without effect on the sender, every frame written carries the next bytes
\* of the envelope, and the session identifier is not changed.
C22_SessionWrapper ==
    [][/\ RunCalled =>
              /\ UNCHANGED engine
              /\ Sender' = FrameSender_new(Len(Enveloped(session')))
              /\ Flatten(cmd_rest') = Enveloped(session')
              /\ pc' = "run_to_writer" /\ log' = <<>>
       /\ InRun =>
              /\ session' = session
              /\ Sending => ChunksDoNotMatter
              /\ \A k \in (Len(log) + 1)..Len(log') :
                     log'[k].at = "snd_write" => CarriesNext(k, Enveloped(session))']_vars

\* C22 witness: a command run within a session whose envelope took two frames
\* has returned its response
C22_Witness ==
    /\ RunEnded
    /\ session.within
    /\ Len(Enveloped(session)) > MAX_FRAME_DATA_LEN
    /\ ret.res.tag = "Ok"
    /\ Cardinality(SndOk) = 2

\* the same bytes run as a command of their own, with the same outcome
C22_WitnessPlain ==
    /\ RunEnded
    /\ ~session.within
    /\ Len(Enveloped(session)) > MAX_FRAME_DATA_LEN
    /\ ret.res.tag = "Ok"
    /\ Cardinality(SndOk) = 2

\* enable has returned
EnableEnded == pc = "done" /\ session = Enabling

\* the chip answered Select with one Information block carrying the bytes:
\* the last frame read, after the command was written, is that block
SelectAnswered(bytes) ==
    /\ SndOk # {}
    /\ \E k \in RxCrcReads :
        /\ \A m \in SndOk : m < k
        /\ \A m \in RxCrcReads : m <= k
        /\ WellFormed(FrameAt(k))
        /\ FrameAt(k).h[2] = 0
        /\ FrameAt(k).d = bytes

\* the chip announced an Information block of n bytes as its answer to Select
SelectAnnounced(n) ==
    /\ SndOk # {}
    /\ \E k \in At("rx_hdr") :
        /\ \A m \in SndOk : m < k
        /\ log[k].res = "Ok"
        /\ log[k].b = <<NAD_SE_TO_HD, 0, n>>

\* the application record made of the seven bytes
Record(r) ==
    [major |-> r[1], minor |-> r[2], patch |-> r[3],
     secure_box_major |-> r[6], secure_box_minor |-> r[7],
     applet_config |-> r[4] * 256 + r[5]]

\* C23 as stated: a chip that answers Select with a payload of nine bytes
\* followed by the status 90 00 makes enable return a parsed record.
C23_AsStated ==
    (EnableEnded /\ SelectAnnounced(9 + 2)) => ret.res.tag = "Ok"

\* a well-formed Supervisory block with the given PCB byte and no
\* Information data was read between positions a and b of the log
Answered(pcb_byte, a, b) ==
    \E k \in RxCrcReads :
        /\ a < k /\ k < b
        /\ WellFormed(FrameAt(k))
        /\ FrameAt(k).h[2] = pcb_byte

\* C23 amended: a chip that answers Select with nine bytes in all, a record
\* of seven followed by the status 90 00, makes enable return the record
\* parsed from the seven; with 6F 00 in place of 90 00 enable returns
\* Status(0x6F00) and the parser is not invoked; a Select is written only
\* after the resync request was written and answered by a ResyncResponse and
\* then the reset request was written and answered by an
\* InterfaceSoftResetResponse, and an enable that ends before running Select
\* ends with an error or a panic.
C23_SelectApplication ==
    /\ \A r \in SelectRecords :
          /\ (EnableEnded /\ SelectAnswered(r \o <<144, 0>>)) =>
                 /\ ret.res = Ok(Record(r))
                 /\ parsed = [called |-> TRUE, bytes |-> r]
          /\ (EnableEnded /\ SelectAnswered(r \o <<111, 0>>)) =>
                 /\ ret.res = Err(SStatus(28416))
                 /\ parsed = NoParse
    /\ (session = Enabling /\ At("snd_write") # {}) =>
          \E a \in At("resync"), b \in At("reset") :
              /\ a < b
              /\ log[a].res = "Ok" /\ log[b].res = "Ok"
              /\ Answered(224, a, b)
              /\ \A k \in At("snd_write") : b < k /\ Answered(239, b, k)
    /\ (EnableEnded /\ ret.from = "enable") =>
          /\ ret.res.tag \in {"Err", "Panic"}
          /\ At("snd_write") = {}

\* C23 witness: enable has returned the record the chip answered Select with
C23_Witness ==
    /\ EnableEnded
    /\ \E r \in SelectRecords :
        /\ SelectAnswered(r \o <<144, 0>>)
        /\ ret.res = Ok(Record(r))

\* enable has returned Status(0x6F00)
C23_WitnessStatus ==
    /\ EnableEnded
    /\ \E r \in SelectRecords : SelectAnswered(r \o <<111, 0>>)
    /\ ret.res = Err(SStatus(28416))
    /\ parsed = NoParse

\* enable has returned the error of interface_soft_reset
C23_WitnessFailed ==
    /\ EnableEnded
    /\ ret.from = "enable"
    /\ At("reset") # {}
    /\ SndOk = {}

\* the bytes that encode a Pcb
PcbBytes == {to_byte(p) : p \in Pcbs}

\* C24: Pcb::parse gives back every Pcb that Pcb::to_byte encoded: the 4
\* Information, the 6 Receipt-acknowledgment and the 16 Supervisory ones;
\* and of a byte that is no such encoding it returns BadPcb.
C24_PcbRoundTrip ==
    /\ Cardinality(Pcbs) = 4 + 6 + 16
    /\ (pc = "done" /\ session.fn = "Pcb::to_byte") => ret.res = Ok(session.arg)
    /\ (pc = "done" /\ session.fn = "Pcb::parse" /\ session.arg \notin PcbBytes) =>
          ret.res = Err(TErr("BadPcb"))

\* C24 witness: R(1, OtherError) has come back from its encoding
C24_Witness ==
    /\ pc = "done"
    /\ session.fn = "Pcb::to_byte"
    /\ session.arg = PcbR(TRUE, "OtherError")
    /\ ret = [from |-> "Pcb::parse", res |-> Ok(PcbR(TRUE, "OtherError"))]

\* the byte 0x83, a Receipt-acknowledgment with an error code of three, is
\* refused
C24_WitnessBadPcb ==
    /\ pc = "done"
    /\ session.fn = "Pcb::parse"
    /\ session.arg = 131
    /\ ret.res = Err(TErr("BadPcb"))

\* the request that a Supervisory response answers
RequestOf ==
    [ResyncResponse |-> "ResyncRequest", IfsResponse |-> "IfsRequest",
     AbortResponse |-> "AbortRequest", WtxResponse |-> "WtxRequest",
     InterfaceSoftResetResponse |-> "InterfaceSoftResetRequest",
     EndOfApduSessionResponse |-> "EndOfApduSessionRequest",
     SeChipResetResponse |-> "SeChipResetRequest",
     GetAtrResponse |-> "GetAtrRequest"]

\* Pcb::to_byte has returned the byte of the Pcb p
Encoded(p) ==
    /\ pc = "encoded"
    /\ session.fn = "Pcb::to_byte"
    /\ session.arg = p

\* C25: the byte of an Information Pcb is 0x40 for sequence bit one plus 0x20
\* for more data; the byte of a Receipt-acknowledgment Pcb is 0x80 plus 0x10
\* for sequence bit one plus the error code, 0 for none, 1 for a checksum
\* error, 2 for another error; and the byte of every Supervisory response is
\* the byte of its request with the one bit 0x20 added, which the request
\* does not have.
C25_PcbBitLayout ==
    /\ \A seq \in BOOLEAN, multi \in BOOLEAN :
          Encoded(PcbI(seq, multi)) =>
              ret.res.v = (IF seq THEN 64 ELSE 0) + (IF multi THEN 32 ELSE 0)
    /\ \A seq \in BOOLEAN, err \in RBlockError :
          Encoded(PcbR(seq, err)) =>
              ret.res.v = 128 + (IF seq THEN 16 ELSE 0)
                              + (CASE err = "NoError" -> 0
                                   [] err = "CrcError" -> 1
                                   [] err = "OtherError" -> 2)
    /\ \A response \in DOMAIN RequestOf :
          Encoded(PcbS(response)) =>
              /\ ret.res.v = to_byte(PcbS(RequestOf[response])) + 32
              /\ BitAnd(to_byte(PcbS(RequestOf[response])), 32) = 0
    /\ SBlock = DOMAIN RequestOf \cup {RequestOf[r] : r \in DOMAIN RequestOf}

\* C25 witness: I(1, more) has been encoded as 0x60
C25_Witness == Encoded(PcbI(TRUE, TRUE)) /\ ret.res = Ok(96)

\* the WTX response has been encoded as 0xE3, the request being 0xC3
C25_WitnessSupervisory == Encoded(PcbS("WtxResponse")) /\ ret.res = Ok(227)

\* Atr::parse has returned from the call on data
AtrParsed(data) ==
    /\ pc = "done"
    /\ session.fn = "Atr::parse"
    /\ session.arg = data

\* C26: a well-formed ATR (version byte, five bytes of vendor id, length and
\* body of the data-link parameters, physical-layer id, length and body of
\* the physical-layer parameters, length of the historical bytes and the
\* bytes) parses into the field values it encodes, the 16-bit ones read
\* big-endian; the fixture of tests::atr parses into version 0, vendor id
\* a000000396, BWT 1000, IFSC 0xFE, PLID 2, MCF 1000, config 8, MPOT 1,
\* SEGT 100, WUT 0 and its ten historical bytes.
C26_AtrParsing ==
    /\ \A atr \in AtrValues, d \in DllpRests, r \in Rfus, p \in PlpRests, t \in Rests :
          AtrParsed(AtrLayout(atr, d, r, p, t)) => ret.res = Ok(atr)
    /\ AtrParsed(<<0, 160, 0, 0, 3, 150, 4, 3, 232, 0, 254, 2, 11, 3, 232, 8, 1,
                   0, 0, 0, 0, 100, 0, 0, 10, 74, 67, 79, 80, 52, 32, 65, 84, 80, 79>>)
          => /\ ret.res.tag = "Ok"
             /\ ret.res.v.pver = 0
             /\ ret.res.v.vid = <<160, 0, 0, 3, 150>>
             /\ ret.res.v.bwt = 1000
             /\ ret.res.v.ifsc = 254
             /\ ret.res.v.plid = 2
             /\ ret.res.v.mcf = 1000
             /\ ret.res.v.config = 8
             /\ ret.res.v.mpot = 1
             /\ ret.res.v.segt = 100
             /\ ret.res.v.wut = 0
             /\ ret.res.v.historical_bytes = <<74, 67, 79, 80, 52, 32, 65, 84, 80, 79>>

\* C26 witness: the fixture of tests::atr has been parsed
C26_Witness ==
    /\ AtrParsed(AtrBytes(1000, 1, 100, 4))
    /\ ret.res = Ok(AtrFixture)

\* an ATR with longer parameter blocks and a byte after the historical bytes
\* has been parsed
C26_WitnessLonger ==
    /\ AtrParsed(AtrLayout(CHOOSE atr \in AtrValues : atr.bwt = 258,
                           <<9>>, <<1, 2, 3>>, <<9, 9>>, <<7>>))
    /\ ret.res.tag = "Ok"
    /\ ret.res.v.segt = 2314

\* a prefix of the fixture has been refused
C26_WitnessRefused ==
    /\ AtrParsed(Take(AtrBytes(1000, 1, 100, 4), AtrLen - 1))
    /\ ret.res = Err(TLine(121))

\* the variant of an error: that of se05x::Error and, for T1, that of
\* t1::Error within it
VariantOf(e) == <<e.e, e.t1.e>>

\* a status word as chips send them: the first byte is 6x or 9x
IsChipStatusWord(word) == word \div 4096 \in {6, 9}

\* Status::from has returned the status word of the error e
Mapped(e) ==
    /\ pc = "done"
    /\ session.fn = "Status::from"
    /\ session.arg = e

\* the statement taken for every Status(code), whatever the code
C27_AnyStatusCode ==
    \A e \in Se05xErrors, other \in Se05xErrors :
        (Mapped(e) /\ VariantOf(other) # VariantOf(e)) =>
            Status_from_Error(other) # ret.res.v

\* C27: two errors of different variants, a Status error being one that
\* carries a status word as chips send them (first byte 6x or 9x), map to
\* different status words; and an error that is no Status error maps to no
\* word of the ranges 6xxx and 9xxx, so to no word that the Status error of a
\* chip's status word maps to.
C27_ErrorMappingDistinguishes ==
    /\ \A e \in Se05xErrors, other \in Se05xErrors :
          (/\ Mapped(e)
           /\ VariantOf(other) # VariantOf(e)
           /\ e.e = "Status" => IsChipStatusWord(e.status)
           /\ other.e = "Status" => IsChipStatusWord(other.status)) =>
              Status_from_Error(other) # ret.res.v
    /\ \A e \in Se05xErrors :
          (Mapped(e) /\ e.e # "Status") => ~IsChipStatusWord(ret.res.v)
    /\ \A code \in ChipStatusWords :
          Mapped(SStatus(code)) => (ret.res.v = code /\ IsChipStatusWord(code))

\* C27 witness: a line error of the link with a line number above the limit
\* has been mapped to 0x1FFF
C27_Witness == Mapped(ST1(TLine(4096))) /\ ret.res = Ok(8191)

\* the status word 6A82 of a chip has been passed through
C27_WitnessStatus == Mapped(SStatus(27266)) /\ ret.res = Ok(27266)

\* the positions where the driver wrote a frame to the bus
FrameWrites == {k \in 1..Len(log) : log[k].k = "w"}

\* the positions where a read gave the driver the first byte of a frame: the
\* header reads of receive_data and the acknowledgment reads of the sender
FrameReads == {k \in At("rx_hdr") \cup At("snd_ack") : log[k].res = "Ok"}

\* the frame read at position k starts with another byte than the
\* chip-to-host address
OtherAddress(k) == log[k].b[1] # NAD_SE_TO_HD

\* the error the operation has passed on to its caller
Failure ==
    IF ret.res.tag # "Err" THEN TErr("")
    ELSE IF ret.res.e.e = "T1" THEN ret.res.e.t1
    ELSE ret.res.e

\* C28 as stated: a frame starting with another byte than the chip-to-host
\* address is rejected with BadAddress.
C28_AsStated ==
    \A k \in FrameReads :
        OtherAddress(k) => (k = Len(log) /\ Failure = TErr("BadAddress"))

\* C28: the two addresses differ; every frame the driver writes starts with
\* the host-to-chip address; every frame it reads and goes on with, in
\* receive_data and in the acknowledgment check of the sender, starts with the
\* chip-to-host address; a frame starting with another byte is rejected at
\* once, the operation fails and nothing more is read or written: with
\* BadAddress in the sender, and in receive_data with BadAddress unless the
\* length check before the address check refuses the header, then with
\* ReceptionBuffer.
C28_FixedAddresses ==
    /\ NAD_HD_TO_SE # NAD_SE_TO_HD
    /\ \A k \in FrameWrites : log[k].b[1] = NAD_HD_TO_SE
    /\ \A k \in FrameReads :
          /\ k < Len(log) => ~OtherAddress(k)
          /\ OtherAddress(k) =>
                /\ k = Len(log)
                /\ stack = <<>> \/ pc = "ret"
                /\ IF log[k].at = "rx_hdr"
                       /\ (BufferTooSmall(Len(buffer), written, log[k].b[3])
                              \/ log[k].b[3] > MAX_FRAME_DATA_LEN)
                   THEN rx_ret = Err(TErr("ReceptionBuffer"))
                   ELSE Failure = TErr("BadAddress")

\* C28 witness: receive_data has refused a header starting with the host's
\* own address with BadAddress, after the driver wrote a frame
C28_Witness ==
    /\ FrameWrites # {}
    /\ \E k \in At("rx_hdr") : log[k].res = "Ok" /\ OtherAddress(k)
    /\ rx_ret = Err(TErr("BadAddress"))

\* the sender has refused an acknowledgment starting with the host's own
\* address
C28_WitnessSender ==
    /\ \E k \in At("snd_ack") : log[k].res = "Ok" /\ OtherAddress(k)
    /\ Failure = TErr("BadAddress")

\* receive_data has refused a header starting with the host's own address
\* with ReceptionBuffer
C28_WitnessLength ==
    /\ \E k \in At("rx_hdr") : log[k].res = "Ok" /\ OtherAddress(k)
    /\ rx_ret = Err(TErr("ReceptionBuffer"))

\* frames of the three kinds have been written and read
C28_WitnessKinds ==
    /\ \E k \in FrameWrites : log[k].b[2] \div 64 \in {0, 1}
    /\ \E k \in FrameWrites : log[k].b[2] \div 64 = 2
    /\ \E k \in FrameReads : k < Len(log)

\* the positions where a frame went out on the bus
FramesOut == {k \in FrameWrites : log[k].res = "Ok"}

\* the blocking delays of the operation
Delays == {k \in 1..Len(log) : log[k].k = "d"}

\* between the write at k and the next bus read, if there is one, the driver
\* waited the guard time
GuardedRead(k) ==
    LET nextr == FirstAfter(k, BusReads)
    IN  nextr # 0 => \E d \in (k + 1)..(nextr - 1) : log[d].at = "wait_segt"

\* C29 as stated: between a frame the driver writes and the next bus read it
\* performs it waits the guard time, and its only blocking delays are waits
\* of the guard time and of the poll interval.
C29_GuardTimeBeforeReads ==
    /\ \A k \in FramesOut : GuardedRead(k)
    /\ \A d \in Delays : log[d].at \in {"wait_segt", "wait_mpot"}

\* the first half as stated
C29_GuardTimeAfterEveryWrite == \A k \in FramesOut : GuardedRead(k)

\* the second half as stated
C29_OnlyGuardAndPollDelays == \A d \in Delays : log[d].at \in {"wait_segt", "wait_mpot"}

\* what holds: the guard time is waited after the frames of resync, of
\* interface_soft_reset and of the frame sender; receive_data waits the poll
\* interval after a read that was not acknowledged, a fixed 100 ms after its
\* WTX response and nothing after its Receipt-acknowledgment
C29_GuardTimeOutsideReceive ==
    /\ \A k \in FramesOut : log[k].at \notin {"rx_ack", "rx_wtx"} => GuardedRead(k)
    /\ \A k \in FramesOut :
          (log[k].at = "rx_wtx" /\ k < Len(log)) => log[k + 1] = EvD("wtx", WTX_DELAY_US)
    /\ \A k \in FramesOut :
          (log[k].at = "rx_ack" /\ k < Len(log)) => log[k + 1].k = "r"
    /\ \A d \in Delays :
          \/ log[d].at \in {"wait_segt", "wait_mpot"}
          \/ log[d] = EvD("wtx", WTX_DELAY_US)

\* receive_data has read a header right after writing its
\* Receipt-acknowledgment
C29_UnguardedRead ==
    \E k \in FramesOut : log[k].at = "rx_ack" /\ k < Len(log) /\ log[k + 1].k = "r"

\* the Pcb of the header receive_data holds
HeaderPcb == Pcb_parse(header_buffer[2])

\* receive_data accepts an Information block in this step: it reads the
\* trailer, and it is the checksum of header and data
AcceptsIBlock ==
    /\ InRx("rx_crc")
    /\ HeaderPcb.ok /\ HeaderPcb.pcb.t = "I"
    /\ Len(log') = Len(log) + 1
    /\ log'[Len(log')] = EvR("rx_crc", TRAILER_LEN, ExpectedCrc(header_buffer, data_buf), "Ok")

\* C30 as stated: after every accepted Information block the expected receive
\* sequence bit is the complement of the value it had before the block,
\* whatever sequence bit the block carried.
C30_ReceiveSeqFlips == [][AcceptsIBlock => iseq_rcv' = ~iseq_rcv]_vars

\* what holds: after an accepted Information block the expected receive
\* sequence bit is the complement of the bit the block carried, so it flips
\* exactly when the block carried the expected bit
C30_ComplementOfBlockBit ==
    [][AcceptsIBlock =>
           /\ iseq_rcv' = ~HeaderPcb.pcb.seq
           /\ iseq_rcv' = ~iseq_rcv <=> HeaderPcb.pcb.seq = iseq_rcv]_vars

\* an Information block with sequence bit one was accepted while zero was
\* expected, and zero is still expected
C30_NotFlipped ==
    /\ rx_ret = Ok(IBlocks(1))
    /\ Cardinality(RxCrcReads) = 1
    /\ \E k \in RxCrcReads : FrameAt(k).h[2] = 64
    /\ Len(log) <= 4
    /\ iseq_rcv = FALSE

\* the Information block being accepted carries another sequence bit than
\* the expected one
SeqMismatch == HeaderPcb.pcb.seq # iseq_rcv

\* the data of the frame held is appended to the buffer at the next free
\* offset in this step, and nothing else of the buffer changes
DataAppended ==
    /\ written' = written + Len(data_buf)
    /\ Len(buffer') = Len(buffer)
    /\ \A j \in 1..Len(buffer) :
          buffer'[j] = IF j > written /\ j <= written + Len(data_buf)
                       THEN data_buf[j - written] ELSE buffer[j]

\* C31: a well-formed Information block is accepted in the same way whether
\* its sequence bit is the expected one or not: its data is appended at the
\* next free offset, and receive_data goes on to acknowledge it when it has
\* the more-data flag and returns IBlocks with the new count when it has not;
\* the mismatch makes no failure.
C31_MismatchTolerated ==
    [][AcceptsIBlock =>
           /\ DataAppended
           /\ IF HeaderPcb.pcb.more
              THEN pc' = "rx_ack" /\ stack' = stack
              ELSE rx_ret' = Ok(IBlocks(written + Len(data_buf)))]_vars

\* C31 witness: two Information blocks carrying sequence bit one were
\* received in a row, neither with the expected bit when it came, and
\* receive_data returned both bytes
C31_Witness ==
    /\ rx_ret = Ok(IBlocks(2))
    /\ \E k1, k2 \in RxCrcReads :
          /\ k1 < k2
          /\ FrameAt(k1).h = <<NAD_SE_TO_HD, 96, 1>>
          /\ FrameAt(k2).h = <<NAD_SE_TO_HD, 64, 1>>
          /\ buffer[1] = FrameAt(k1).d[1]
          /\ buffer[2] = FrameAt(k2).d[1]
    /\ \A k \in At("rx_hdr") : log[k].res = "Ok" => log[k].b[2] \in {96, 64}

\* the Pcb of the frame whose trailer was read at position k
PcbAt(k) == Pcb_parse(FrameAt(k).h[2])

\* the frame has the chip-to-host address, data as long as its length byte
\* says and the checksum of header and data as trailer
Intact(f) ==
    /\ f.h[1] = NAD_SE_TO_HD
    /\ f.h[3] = Len(f.d)
    /\ f.c = to_le_bytes(CrcOf(f.h \o f.d))

\* the two highest bits of the Pcb bytes of a kind of block
KindBits == [I |-> {0, 1}, R |-> {2}, S |-> {3}]

\* the positions where a well-formed block of kind t was read whole
Blocks(t) ==
    {k \in RxCrcReads :
        /\ FrameAt(k).h[2] \div 64 \in KindBits[t]
        /\ PcbAt(k).ok /\ PcbAt(k).pcb.t = t
        /\ Intact(FrameAt(k))}

RECURSIVE DataLen(_)
\* the number of data bytes of the frames read at the positions of set
DataLen(set) ==
    IF set = {} THEN 0
    ELSE LET k == CHOOSE j \in set : TRUE
         IN  Len(FrameAt(k).d) + DataLen(set \ {k})

\* C32: a well-formed Supervisory block other than a WTX request ends
\* receive_data with SBlock: the block's code, as i_data the number of bytes
\* of the Information blocks received before it in this call, as s_data the
\* block's own length; a well-formed Receipt-acknowledgment block ends it
\* with an error. Nothing is read or written after either.
C32_SupervisoryEndsReceive ==
    /\ \A k \in Blocks("S") :
          PcbAt(k).pcb.block # "WtxRequest" =>
              /\ k = Len(log)
              /\ rx_ret.tag = "Ok"
              /\ rx_ret.v.kind = "SBlock"
              /\ rx_ret.v.block = PcbAt(k).pcb.block
              /\ rx_ret.v.i_data = DataLen({j \in Blocks("I") : j < k})
              /\ rx_ret.v.s_data = FrameAt(k).h[3]
    /\ \A k \in Blocks("R") :
          /\ k = Len(log)
          /\ rx_ret.tag = "Err"

\* C32 witness: after a chained Information block of one byte an interface
\* reset response with an ATR was received: SBlock with i_data 1 and s_data 35
C32_Witness ==
    /\ Blocks("I") # {}
    /\ \E k \in Blocks("S") : PcbAt(k).pcb.block = "InterfaceSoftResetResponse"
    /\ rx_ret.tag = "Ok"
    /\ rx_ret.v.kind = "SBlock"
    /\ rx_ret.v.i_data = 1
    /\ rx_ret.v.s_data = AtrLen

\* a Receipt-acknowledgment block has ended receive_data with an error
C32_WitnessReceipt ==
    /\ Blocks("R") # {}
    /\ rx_ret = Err(TLine(576))

\* the message being sent, and the number of frames it takes
Message == Flatten(session.message)
FrameCount == (Len(Message) + MAX_FRAME_DATA_LEN - 1) \div MAX_FRAME_DATA_LEN

\* how many frames went out before the one written at position k
Index(k) == Cardinality({j \in SndOk : j < k})

\* the sequence bit of the frame written at k
SeqFlag(k) == (log[k].b[2] \div 64) % 2 = 1

\* C33: of a message sent from send sequence bit s, the k-th frame that went
\* out (k = 0, 1, ...) carries the sequence bit s when k is even and the
\* complement of s when k is odd, and it has the more-data flag exactly when
\* it is not the last frame of the message.
C33_SentSeqAndChaining ==
    \A k \in SndOk :
        /\ SeqFlag(k) = (IF Index(k) % 2 = 0 THEN session.seq ELSE ~session.seq)
        /\ MoreFlag(k) <=> Index(k) # FrameCount - 1

\* C33 witness: a message of 509 bytes has gone out from sequence bit one in
\* three frames and the sending is over
C33_Witness ==
    /\ session.seq
    /\ Len(Message) = 509
    /\ Cardinality(SndOk) = 3
    /\ \E k \in SndOk : Index(k) = 2 /\ SeqFlag(k) /\ ~MoreFlag(k)
    /\ pc = "rx_hdr"

\* the data field of the frame written at position k
DataField(k) == SubSeq(log[k].b, HEADER_LEN + 1, Len(log[k].b) - TRAILER_LEN)

RECURSIVE SentBytes(_)
\* the data fields of the frames written at the positions of set, in the
\* order of the positions
SentBytes(set) ==
    IF set = {} THEN <<>>
    ELSE LET k == CHOOSE j \in set : \A j2 \in set : j2 <= j
         IN  SentBytes(set \ {k}) \o DataField(k)

\* to_writer has written the whole message and every flush succeeded:
\* run_command goes on to receive
MessageSent == Top(stack) = "receive_data" /\ pc = "rx_hdr"

\* C35: every frame that goes out has a length byte equal to the number of
\* its data bytes, at most 254, and the data fields of the frames, in the
\* order they went out, are a prefix of the message; when a message of
\* N >= 1 bytes is written completely and every flush succeeded, exactly
\* ceil(N / 254) frames went out and their data fields together are the
\* message.
C35_Chunking ==
    /\ \A k \in SndOk :
          /\ log[k].b[3] = Len(DataField(k))
          /\ Len(log[k].b) = HEADER_LEN + log[k].b[3] + TRAILER_LEN
          /\ log[k].b[3] <= MAX_FRAME_DATA_LEN
    /\ Len(SentBytes(SndOk)) <= Len(Message)
    /\ SentBytes(SndOk) = Take(Message, Len(SentBytes(SndOk)))
    /\ MessageSent =>
          /\ Cardinality(SndOk) = FrameCount
          /\ SentBytes(SndOk) = Message

\* C35 witness: the message of 600 bytes, written in one call of write_data
\* after another, has gone out in three frames of 254, 254 and 92 bytes
C35_Witness ==
    /\ MessageSent
    /\ Len(Message) = 600
    /\ Cardinality(SndOk) = 3
    /\ \E k \in SndOk : Index(k) = 2 /\ log[k].b[3] = 92

\* a message of 508 bytes has gone out in two full frames
C35_WitnessFull ==
    /\ MessageSent
    /\ Len(Message) = 508
    /\ Cardinality(SndOk) = 2
    /\ \A k \in SndOk : log[k].b[3] = MAX_FRAME_DATA_LEN

\* the errors receive_data rejects a frame with: its length, its address,
\* its Pcb, its checksum, a Receipt-acknowledgment
Rejections ==
    {TErr("ReceptionBuffer"), TErr("BadAddress"), TErr("BadPcb"), TErr("BadCrc"),
     TLine(576)}

\* receive_data is reading a frame
ReadsFrame == InRx("rx_hdr") \/ InRx("rx_data") \/ InRx("rx_crc")

\* receive_data rejects the frame in this step: a read has given it bytes of
\* the frame and it returns one of the errors above
RejectsFrame ==
    /\ ReadsFrame
    /\ Len(log') = Len(log) + 1
    /\ log'[Len(log')].k = "r" /\ log'[Len(log')].res = "Ok"
    /\ Top(stack') # "receive_data"
    /\ ret'.from = "receive_data"
    /\ ret'.res.tag = "Err"
    /\ ret'.res.e \in Rejections

\* receive_data has read the header or the data of a frame in this step and
\* goes on to read the rest of it
ReadsOn == ReadsFrame /\ Top(stack') = "receive_data" /\ pc' \in {"rx_data", "rx_crc"}

\* the step leaves what receive_data has accumulated as it is
AccumulatedKept == buffer' = buffer /\ written' = written /\ iseq_rcv' = iseq_rcv

\* C34: the steps in which receive_data reads the header and the data of a
\* frame change neither the count of accumulated bytes nor the reception
\* buffer nor the expected receive sequence bit, and neither does the step in
\* which it rejects the frame for its length, address, Pcb or checksum or for
\* being a Receipt-acknowledgment: all three are as before the header was
\* read; the rejecting step writes no frame and receive_data returns.
C34_RejectedFrameContributesNothing ==
    [][/\ ReadsOn => AccumulatedKept
       /\ RejectsFrame =>
              /\ AccumulatedKept
              /\ \A k \in (Len(log) + 1)..Len(log') : log'[k].k # "w"]_vars

\* C34 witness: after an Information block of one byte was taken, a second
\* one of one byte was rejected for its checksum; the buffer holds the first
\* byte only
C34_Witness ==
    /\ rx_ret = Err(TErr("BadCrc"))
    /\ Cardinality(RxCrcReads) = 2
    /\ \E k \in RxCrcReads : FrameAt(k).h = <<NAD_SE_TO_HD, 32, 1>> /\ FrameAt(k).d = <<144>>
    /\ log[Len(log)].at = "rx_crc" /\ log[Len(log) - 1].b = <<144>>
    /\ buffer = <<144, 0, 0>>
    /\ written = 1



(***************************************************************************)
(* C36: the counters of the frame sender                                   *)
(***************************************************************************)
\* the place in current_frame_buffer write_data copies the next chunk to
\* (HEADER_LEN + current_offset) and the room left in the frame from there
NextChunkAt == HEADER_LEN + current_offset(Sender)

\* C36: in every state of a frame sender sent <= written <= the declared length
\* and at most MAX_FRAME_DATA_LEN bytes are written and not yet sent, so the
\* chunk write_data copies lies between the header and the trailer of the frame
\* buffer; also after a flush has failed and further writes are made.
C36_SenderCounters ==
    /\ 0 <= snd_sent
    /\ snd_sent <= snd_written
    /\ snd_written <= snd_data
    /\ snd_written - snd_sent <= MAX_FRAME_DATA_LEN
    /\ NextChunkAt <= HEADER_LEN + MAX_FRAME_DATA_LEN
    /\ NextChunkAt + TRAILER_LEN <= MAX_FRAME_LEN

\* a write of one byte made while a full frame whose flush failed is still
\* buffered: nothing is taken and the flush is repeated and fails again
C36_Witness ==
    /\ stack = <<>> /\ pc = "sender"
    /\ calls >= 2
    /\ cmd_rest = <<Bytes(1, 0)>>
    /\ snd_written - snd_sent = MAX_FRAME_DATA_LEN
    /\ snd_sent = 0
    /\ ret = [from |-> "write_data", res |-> Err(TErr("Timeout"))]

\* a write after a failed flush that is flushed and acknowledged: the frame
\* that failed before is counted as sent once
C36_WitnessResent ==
    /\ stack = <<>> /\ pc = "sender"
    /\ calls >= 2
    /\ cmd_rest = <<Bytes(1, 0)>>
    /\ snd_sent = MAX_FRAME_DATA_LEN
    /\ snd_written = MAX_FRAME_DATA_LEN
    /\ ret = [from |-> "write_data", res |-> Ok(0)]


(***************************************************************************)
(* C37: the poll interval as a divisor                                     *)
(***************************************************************************)
\* a call has ended in the panic of the division bwt / mpot
DividedByZero == ret.res = PanicRes("division by zero")

\* C37: the poll interval is never zero, whatever MPOT byte an accepted ATR
\* carries, so the budget bwt / mpot + 1 of receive_data is computed without
\* a division by zero. Violated: an ATR with MPOT 0 sets mpot to 0.
C37_PollIntervalPositive ==
    /\ mpot > 0
    /\ ~DividedByZero


(***************************************************************************)
(* C38: the width of the timing arithmetic                                 *)
(***************************************************************************)
\* a call has ended in the panic of the multiplication bwt * mult
MultipliedOver == ret.res = PanicRes("attempt to multiply with overflow")

\* receive_data has taken a WTX request and is about to rescale its budget
\* with the multiplier the request carries
Rescaling == InRx("rx_wtx")

\* C38: the block waiting time in microseconds, 1000 x the BWT of the ATR, and
\* the product bwt x multiplier of a WTX request fit in 32 bits for every
\* 16-bit BWT and every 8-bit multiplier. Violated for the product: the
\* largest BWT times the multiplier 0x90 needs 34 bits.
C38_TimingFitsU32 ==
    /\ bwt \div 65536 < 65536
    /\ Rescaling => ~MulOverflows(bwt, data_buf[1])
    /\ ~MultipliedOver


(***************************************************************************)
(* C39: an attempt before Timeout                                          *)
(***************************************************************************)
\* receive_data is at the head of its loop and the counter reaches the budget:
\* the call returns Timeout
AboutToTimeOut == InRx("rx_hdr") /\ RxExhausted(i + 1, rx_retry_count)

\* the header reads made since the call began or, when a WTX request has
\* rescaled the budget, since the last WTX response
AttemptsInBudget == {j \in At("rx_hdr") : j > LastWtx}

\* C39: receive_data reads a header at least once before it returns Timeout,
\* at the start of a call and after a WTX request has rescaled the budget.
\* Violated: with a budget of 1 the loop breaks before its first read.
C39_AttemptBeforeTimeout == AboutToTimeOut => AttemptsInBudget # {}

\* C39 at the start of a call only
C39_AttemptAtStart == (AboutToTimeOut /\ LastWtx = 0) => AttemptsInBudget # {}


(***************************************************************************)
(* C40: Timeout and a chip that is ready                                   *)
(***************************************************************************)
\* the header read at position k of the log was answered at once with the
\* header of a chained Information block from the chip
ChainedHeader(k) ==
    /\ log[k].res = "Ok"
    /\ log[k].b[1] = NAD_SE_TO_HD
    /\ Pcb_parse(log[k].b[2]).ok
    /\ Pcb_parse(log[k].b[2]).pcb.t = "I"
    /\ Pcb_parse(log[k].b[2]).pcb.more

\* the acknowledgments receive_data has written for chained blocks it took
AcksWritten == {k \in At("rx_ack") : log[k].res = "Ok"}

\* so far in this call every header read was answered with a chained
\* Information block, and every one of them was taken and acknowledged
ChainOnly ==
    /\ At("rx_hdr") # {}
    /\ \A k \in At("rx_hdr") : ChainedHeader(k)
    /\ Cardinality(AcksWritten) = Cardinality(At("rx_hdr"))

\* C40, first sentence: receive_data returns Timeout only after a header read
\* that was not acknowledged
C40_TimeoutOnlyAfterNack == AboutToTimeOut => HeaderReadsAfter(0, "AddressNack") # {}

\* C40: a chip that answers every header read at once with a well-formed
\* chained Information block that fits the buffer never causes Timeout,
\* however long the chain. Violated: every block taken uses up one unit of the
\* budget bwt / mpot + 1, as a read that was not acknowledged does.
C40_ChainNeverTimesOut == ~(AboutToTimeOut /\ ChainOnly)

====
